---- MODULE Spec2Model ----
(***************************************************************************)
(* PodTranscript: the file parser (FileParser.processFiles and the format  *)
(* detectors it dispatches to), modelled as a state machine whose steps    *)
(* are the stretches of code between two awaits.                           *)
(*                                                                         *)
(* Strings are TLA+ strings (Len, SubSeq and \o act on them as on          *)
(* sequences of characters).  A value of JavaScript's dynamic types is a   *)
(* record tagged by its type, one field name per type.                     *)
(***************************************************************************)
EXTENDS Integers, Sequences, FiniteSets, TLC

(***************************************************************************)
(* String primitives of the JavaScript runtime.                            *)
(***************************************************************************)
CharAt(s, i) == SubSeq(s, i, i)

EndsWith(s, suffix) ==
    /\ Len(s) >= Len(suffix)
    /\ SubSeq(s, Len(s) - Len(suffix) + 1, Len(s)) = suffix

Includes(s, pat) ==
    \E i \in 1..(Len(s) - Len(pat) + 1) : SubSeq(s, i, i + Len(pat) - 1) = pat

UpperLetters == "ABCDEFGHIJKLMNOPQRSTUVWXYZ"

LowerLetters == "abcdefghijklmnopqrstuvwxyz"

UpperSet == {CharAt(UpperLetters, k) : k \in 1..Len(UpperLetters)}

LowerChar(c) ==
    IF c \in UpperSet
    THEN CharAt(LowerLetters, CHOOSE k \in 1..Len(UpperLetters) : CharAt(UpperLetters, k) = c)
    ELSE c

\* Character by character; the string is halved to keep the evaluation shallow.
RECURSIVE ToLowerCase(_)
ToLowerCase(s) ==
    IF Len(s) = 0 THEN ""
    ELSE IF Len(s) = 1 THEN LowerChar(s)
    ELSE ToLowerCase(SubSeq(s, 1, Len(s) \div 2)) \o ToLowerCase(SubSeq(s, Len(s) \div 2 + 1, Len(s)))

WhiteSpace == {" ", "\t", "\n", "\r", "\f"}

IsBlank(s) == \A i \in 1..Len(s) : CharAt(s, i) \in WhiteSpace

Trim(s) ==
    IF IsBlank(s) THEN ""
    ELSE LET first == CHOOSE i \in 1..Len(s) :
                          /\ CharAt(s, i) \notin WhiteSpace
                          /\ \A j \in 1..(i - 1) : CharAt(s, j) \in WhiteSpace
             last  == CHOOSE i \in 1..Len(s) :
                          /\ CharAt(s, i) \notin WhiteSpace
                          /\ \A j \in (i + 1)..Len(s) : CharAt(s, j) \in WhiteSpace
         IN  SubSeq(s, first, last)

\* s.split(sep) for a one-character separator: the pieces between separators.
RECURSIVE Split(_, _)
Split(s, sep) ==
    IF \A i \in 1..Len(s) : CharAt(s, i) # sep THEN <<s>>
    ELSE LET cut == CHOOSE i \in 1..Len(s) :
                        /\ CharAt(s, i) = sep
                        /\ \A j \in 1..(i - 1) : CharAt(s, j) # sep
         IN  <<SubSeq(s, 1, cut - 1)>> \o Split(SubSeq(s, cut + 1, Len(s)), sep)

\* filename.replace(/\.[^/.]+$/, ''): the last extension is cut off.
StripExtension(filename) ==
    LET dots == {i \in 1..Len(filename) : CharAt(filename, i) = "."}
    IN  IF dots = {} THEN filename
        ELSE LET d == CHOOSE i \in dots : \A j \in dots : j <= i
             IN  IF /\ d < Len(filename)
                    /\ \A j \in (d + 1)..Len(filename) : CharAt(filename, j) # "/"
                 THEN SubSeq(filename, 1, d - 1)
                 ELSE filename

(***************************************************************************)
(* Values of JavaScript's dynamic types.                                   *)
(***************************************************************************)
Undef == [t |-> "undefined"]

Null == [t |-> "null"]

Bool(b) == [t |-> "boolean", b |-> b]

Num(n) == [t |-> "number", n |-> n]

NaN == [t |-> "nan"]

Str(s) == [t |-> "string", s |-> s]

Arr(items) == [t |-> "array", items |-> items]

Obj(keys, vals) == [t |-> "object", keys |-> keys, vals |-> vals]

Truthy(v) ==
    CASE v.t = "undefined" -> FALSE
      [] v.t = "null"      -> FALSE
      [] v.t = "nan"       -> FALSE
      [] v.t = "boolean"   -> v.b
      [] v.t = "number"    -> v.n # 0
      [] v.t = "string"    -> v.s # ""
      [] OTHER             -> TRUE

\* a || b
Or(a, b) == IF Truthy(a) THEN a ELSE b

\* v.k for a v that is neither null nor undefined (those throw a TypeError).
Get(v, k) ==
    IF v.t = "object" /\ \E i \in 1..Len(v.keys) : v.keys[i] = k
    THEN v.vals[CHOOSE i \in 1..Len(v.keys) : v.keys[i] = k]
    ELSE Undef

Nullish(v) == v.t \in {"undefined", "null"}

\* v[0] of an array.
First(v) == IF Len(v.items) > 0 THEN v.items[1] ELSE Undef

(***************************************************************************)
(* parseFloat.  Numbers of the model are integers: the numerals of the     *)
(* inputs are integral, so the fraction and exponent of a numeral are not  *)
(* modelled.  A string parses to the number of its longest numeric prefix  *)
(* (after leading white space and an optional sign), or to NaN.            *)
(***************************************************************************)
Digits == "0123456789"

IsDigit(c) == \E k \in 1..Len(Digits) : CharAt(Digits, k) = c

DigitVal(c) == (CHOOSE k \in 1..Len(Digits) : CharAt(Digits, k) = c) - 1

RECURSIVE DigitsValue(_, _)
DigitsValue(s, acc) ==
    IF Len(s) = 0 \/ ~IsDigit(CharAt(s, 1)) THEN acc
    ELSE DigitsValue(SubSeq(s, 2, Len(s)), acc * 10 + DigitVal(CharAt(s, 1)))

RECURSIVE TrimStart(_)
TrimStart(s) ==
    IF Len(s) > 0 /\ CharAt(s, 1) \in WhiteSpace THEN TrimStart(SubSeq(s, 2, Len(s))) ELSE s

parseFloatString(str) ==
    LET s    == TrimStart(str)
        neg  == Len(s) > 0 /\ CharAt(s, 1) = "-"
        body == IF Len(s) > 0 /\ CharAt(s, 1) \in {"-", "+"} THEN SubSeq(s, 2, Len(s)) ELSE s
    IN  IF Len(body) = 0 \/ ~IsDigit(CharAt(body, 1)) THEN NaN
        ELSE Num(IF neg THEN 0 - DigitsValue(body, 0) ELSE DigitsValue(body, 0))

\* parseFloat(v): v is first converted to a string.  An array converts to its
\* elements joined by commas, so it parses as its first element does.
RECURSIVE parseFloat(_)
parseFloat(v) ==
    CASE v.t = "number" -> v
      [] v.t = "string" -> parseFloatString(v.s)
      [] v.t = "array"  -> IF Len(v.items) = 0 \/ Nullish(v.items[1]) THEN NaN
                           ELSE parseFloat(v.items[1])
      [] OTHER          -> NaN

\* a + n for a number or NaN a.
Plus(a, n) == IF a.t = "number" THEN Num(a.n + n) ELSE NaN

(***************************************************************************)
(* The result of a call that may throw.                                    *)
(***************************************************************************)
Ret(v) == [threw |-> FALSE, val |-> v]

Threw == [threw |-> TRUE, val |-> Null]

IsEpisode(v) == "transcript" \in DOMAIN v

\* new Date().toISOString(): the clock is not modelled.
Now == Str("now")

EpisodeId(n) == "episode-" \o ToString(n)

(***************************************************************************)
(* Segment Normalizer: FileParser.extractSegments.  A definition that uses *)
(* an intermediate value several times takes it as a parameter.            *)
(***************************************************************************)
IsObjectLike(v) == v.t \in {"object", "array"}

\* lines 434-444: the text of a node.
SegmentText(segment) ==
    CASE segment.t = "string" -> segment
      [] IsObjectLike(segment) -> Or(Get(segment, "text"),
                                  Or(Get(segment, "content"),
                                  Or(Get(segment, "transcript"),
                                  Or(Get(segment, "body"),
                                  Or(Get(segment, "message"), Str(""))))))
      [] OTHER -> Str("")

\* lines 431-451: the timestamp of the node at JavaScript index `index`.
SegmentTimestamp(segment, index) ==
    CASE segment.t = "string" -> Num(index * 5)
      [] IsObjectLike(segment) -> parseFloat(Or(Get(segment, "timestamp"),
                                             Or(Get(segment, "time"),
                                             Or(Get(segment, "start"),
                                             Or(Get(segment, "startTime"), Num(index * 5))))))
      [] OTHER -> Num(0)

\* lines 432-457: the speaker of a node.
SegmentSpeaker(segment) ==
    IF IsObjectLike(segment)
    THEN Or(Get(segment, "speaker"), Or(Get(segment, "name"), Or(Get(segment, "author"), Undef)))
    ELSE Undef

\* A push that tests the text without trimming it.
PushSegmentUntrimmed(text, timestamp, speaker, segment, index) ==
    IF ~Truthy(text) THEN [threw |-> FALSE, push |-> FALSE]
    ELSE IF text.t # "string" THEN [threw |-> TRUE, push |-> FALSE]
    ELSE [threw |-> FALSE, push |-> TRUE,
          seg |-> [id |-> "segment-" \o ToString(index),
                   text |-> Trim(text.s),
                   timestamp |-> timestamp,
                   speaker |-> speaker,
                   confidence |-> Get(segment, "confidence")]]

\* A push that numbers a segment by the pair of nodes it belongs to.
PushSegmentPairedId(text, timestamp, speaker, segment, index) ==
    IF ~Truthy(text) THEN [threw |-> FALSE, push |-> FALSE]
    ELSE IF text.t # "string" THEN [threw |-> TRUE, push |-> FALSE]
    ELSE IF Trim(text.s) = "" THEN [threw |-> FALSE, push |-> FALSE]
    ELSE [threw |-> FALSE, push |-> TRUE,
          seg |-> [id |-> "segment-" \o ToString(index \div 2),
                   text |-> Trim(text.s),
                   timestamp |-> timestamp,
                   speaker |-> speaker,
                   confidence |-> Get(segment, "confidence")]]

\* lines 460-468: the push, or the TypeError of text.trim() on a text that
\* is no string.
PushSegment(text, timestamp, speaker, segment, index) ==
    IF ~Truthy(text) THEN [threw |-> FALSE, push |-> FALSE]
    ELSE IF text.t # "string" THEN [threw |-> TRUE, push |-> FALSE]
    ELSE IF Trim(text.s) = "" THEN [threw |-> FALSE, push |-> FALSE]
    ELSE [threw |-> FALSE, push |-> TRUE,
          seg |-> [id |-> "segment-" \o ToString(index),
                   text |-> Trim(text.s),
                   timestamp |-> timestamp,
                   speaker |-> speaker,
                   confidence |-> Get(segment, "confidence")]]

\* One pass of the forEach body, for the node at JavaScript index `index`.
NormalizeNode(segment, index) ==
    PushSegment(SegmentText(segment), SegmentTimestamp(segment, index),
                SegmentSpeaker(segment), segment, index)

PushedSegments(pushes) == [k \in 1..Len(pushes) |-> pushes[k].seg]

\* The segments pushed by the passes `passes`, unless one of them threw.
CollectSegments(passes) ==
    IF \E k \in 1..Len(passes) : passes[k].threw THEN Threw
    ELSE Ret(PushedSegments(SelectSeq(passes, LAMBDA r : r.push)))

SegmentsOf(transcriptData) ==
    IF transcriptData.t # "array" THEN Ret(<<>>)
    ELSE CollectSegments([k \in 1..Len(transcriptData.items) |->
                             NormalizeNode(transcriptData.items[k], k - 1)])

extractSegments(data) ==
    SegmentsOf(Or(Get(data, "transcript"),
               Or(Get(data, "segments"),
               Or(Get(data, "lines"),
               Or(Get(data, "transcriptSegments"),
               Or(Get(data, "items"), Arr(<<>>)))))))

calculateDuration(segments) ==
    IF Len(segments) = 0 THEN Num(0)
    ELSE Plus(segments[Len(segments)].timestamp, 30)

\* lines 385-398: the episode made of the segments r of data.
EpisodeFromData(r, data, filename, id) ==
    IF r.threw THEN Threw
    ELSE IF Len(r.val) = 0 THEN Ret(Null)
    ELSE Ret([id |-> EpisodeId(id),
              title |-> Or(Get(data, "title"), Or(Get(data, "episodeTitle"),
                        Or(Get(data, "name"), Str(filename)))),
              podcastTitle |-> Or(Get(data, "podcastTitle"), Or(Get(data, "showTitle"),
                               Or(Get(data, "podcast"), Str("Unknown Podcast")))),
              duration |-> Or(Get(data, "duration"), calculateDuration(r.val)),
              publishDate |-> Or(Get(data, "publishDate"), Or(Get(data, "date"),
                              Or(Get(data, "pubDate"), Now))),
              description |-> Or(Get(data, "description"), Get(data, "summary")),
              transcript |-> r.val])

\* Object.keys(data) throws a TypeError on null and undefined.
extractEpisodeFromData(data, filename, id) ==
    IF Nullish(data) THEN Threw
    ELSE EpisodeFromData(extractSegments(data), data, filename, id)

\* lines 403-412: the episode made of the normalized segments r.
ImportedEpisode(r, filename, id) ==
    IF r.threw THEN Threw
    ELSE IF Len(r.val) = 0 THEN Ret(Null)
    ELSE Ret([id |-> EpisodeId(id),
              title |-> Str(StripExtension(filename)),
              podcastTitle |-> Str("Imported Podcast"),
              duration |-> calculateDuration(r.val),
              publishDate |-> Now,
              description |-> Undef,
              transcript |-> r.val])

createEpisodeFromSegments(segments, filename, id) ==
    ImportedEpisode(extractSegments(Obj(<<"segments">>, <<Arr(segments)>>)), filename, id)

\* lines 261-271: the episode made of the segments r of episodeData.
AppleEpisode(r, episodeData, filename, id) ==
    IF r.threw THEN Threw
    ELSE IF Len(r.val) = 0 THEN Ret(Null)
    ELSE Ret([id |-> EpisodeId(id),
              title |-> Or(Get(episodeData, "title"),
                        Or(Get(episodeData, "name"), Str(filename))),
              podcastTitle |-> Or(Get(episodeData, "podcastTitle"),
                               Or(Get(episodeData, "showTitle"),
                               Or(Get(episodeData, "podcast"), Str("Unknown Podcast")))),
              duration |-> Or(Get(episodeData, "duration"), calculateDuration(r.val)),
              publishDate |-> Or(Get(episodeData, "publishDate"),
                              Or(Get(episodeData, "date"),
                              Or(Get(episodeData, "pubDate"), Now))),
              description |-> Or(Get(episodeData, "description"),
                              Get(episodeData, "summary")),
              transcript |-> r.val])

\* lines 250-260: the transcript data of episodeData, if any.
AppleTranscript(transcriptData, episodeData, filename, id) ==
    IF ~Truthy(transcriptData) THEN Ret(Null)
    ELSE AppleEpisode(extractSegments(Obj(<<"segments">>, <<transcriptData>>)),
                      episodeData, filename, id)

AppleEpisodeData(episodeData, filename, id) ==
    AppleTranscript(Or(Get(episodeData, "transcript"),
                    Or(Get(episodeData, "transcriptSegments"),
                    Or(Get(episodeData, "segments"), Get(episodeData, "lines")))),
                    episodeData, filename, id)

extractApplePodcastEpisode(data, filename, id) ==
    AppleEpisodeData(Or(Get(data, "MTEpisode"), Or(Get(data, "episode"), data)), filename, id)

(***************************************************************************)
(* Structured-data detector: FileParser.parseJsonContent.  `parsed` is     *)
(* what JSON.parse makes of the content: a value, or SyntaxError.  The     *)
(* keys of an object are held in the order Object.entries lists them.      *)
(***************************************************************************)
SyntaxError == [t |-> "SyntaxError"]

\* Object.entries(data) as the sequence of its values.
EntryValues(data) ==
    CASE data.t = "object" -> data.vals
      [] data.t = "array"  -> data.items
      [] data.t = "string" -> [k \in 1..Len(data.s) |-> Str(CharAt(data.s, k))]
      [] OTHER             -> <<>>

\* lines 230-232: the entry's value is a non-empty array whose first item is
\* an object with a text or content (null is an object, and throws).
EntryHit(value) ==
    /\ value.t = "array"
    /\ Len(value.items) > 0
    /\ \/ value.items[1].t = "null"
       \/ /\ IsObjectLike(value.items[1])
          /\ Truthy(Or(Get(value.items[1], "text"), Get(value.items[1], "content")))

ScanHit(value, filename, id) ==
    IF value.items[1].t = "null" THEN Threw
    ELSE createEpisodeFromSegments(value.items, filename, id)

\* lines 229-237: the fallback scan over the entries' values.
ScanValues(values, filename, id) ==
    IF \A k \in 1..Len(values) : ~EntryHit(values[k]) THEN Ret(Null)
    ELSE ScanHit(values[CHOOSE k \in 1..Len(values) :
                            EntryHit(values[k]) /\ \A h \in 1..(k - 1) : ~EntryHit(values[h])],
                 filename, id)

\* lines 215-237: the bare array, then the scan.
ParseJsonArrayOrScan(data, filename, id) ==
    IF data.t = "array" /\ Len(data.items) > 0 /\ Nullish(First(data)) THEN Threw
    ELSE IF /\ data.t = "array" /\ Len(data.items) > 0
            /\ Truthy(Or(Get(First(data), "text"), Get(First(data), "content")))
         THEN createEpisodeFromSegments(data.items, filename, id)
    ELSE IF /\ data.t = "array" /\ Len(data.items) > 0
            /\ Truthy(Or(Get(First(data), "transcript"), Get(First(data), "segments")))
         THEN extractEpisodeFromData(First(data), filename, id)
    ELSE ScanValues(EntryValues(data), filename, id)

\* lines 207-237, `multi` being what the episodes envelope gave.
ParseJsonAfterEpisodes(multi, data, filename, id) ==
    IF multi.threw THEN Threw
    ELSE IF IsEpisode(multi.val) THEN multi
    ELSE IF Truthy(Or(Get(data, "transcript"), Or(Get(data, "segments"), Get(data, "lines"))))
         THEN extractEpisodeFromData(data, filename, id)
    ELSE ParseJsonArrayOrScan(data, filename, id)

\* lines 204-237.
ParseJsonEnvelope(data, filename, id) ==
    ParseJsonAfterEpisodes(
        IF Truthy(Get(data, "episodes")) /\ Get(data, "episodes").t = "array"
        THEN extractEpisodeFromData(First(Get(data, "episodes")), filename, id)
        ELSE Ret(Null),
        data, filename, id)

\* The catch of a detector: a thrown error is "no match".
Caught(r) == IF r.threw THEN Null ELSE r.val

parseJsonContent(parsed, filename, id) ==
    IF parsed.t = "SyntaxError" THEN Null
    ELSE IF Nullish(parsed) THEN Null
    ELSE IF Truthy(Or(Get(parsed, "MTEpisode"), Get(parsed, "episode")))
    THEN Caught(extractApplePodcastEpisode(parsed, filename, id))
    ELSE Caught(ParseJsonEnvelope(parsed, filename, id))

(***************************************************************************)
(* Markup detector: FileParser.parsePlistContent.  `doc` is what DOMParser *)
(* makes of the content: a tree of elements and text nodes, or a document  *)
(* holding a parsererror element.                                          *)
(***************************************************************************)
Elem(tag, kids) == [tag |-> tag, kids |-> kids, data |-> ""]

Text(s) == [tag |-> "#text", kids |-> <<>>, data |-> s]

Document(root) == [parsererror |-> FALSE, root |-> root]

ParserError == [parsererror |-> TRUE, root |-> Elem("parsererror", <<>>)]

\* The elements below node, in document order.
RECURSIVE Descendants(_)
Descendants(node) ==
    LET F[i \in 0..Len(node.kids)] ==
            IF i = 0 THEN <<>>
            ELSE IF node.kids[i].tag = "#text" THEN F[i - 1]
            ELSE F[i - 1] \o <<node.kids[i]>> \o Descendants(node.kids[i])
    IN  F[Len(node.kids)]

RECURSIVE textContent(_)
textContent(node) ==
    IF node.tag = "#text" THEN node.data
    ELSE LET F[i \in 0..Len(node.kids)] ==
                 IF i = 0 THEN "" ELSE F[i - 1] \o textContent(node.kids[i])
         IN  F[Len(node.kids)]

\* querySelectorAll with a list of element names, over the elements `scope`.
querySelectorAll(scope, tags) == SelectSeq(scope, LAMBDA e : e.tag \in tags)

WordChars == "abcdefghijklmnopqrstuvwxyzABCDEFGHIJKLMNOPQRSTUVWXYZ0123456789_"

WordCharSet == {CharAt(WordChars, k) : k \in 1..Len(WordChars)}

IsWordChar(c) == c \in WordCharSet

IsUpperOrUnderscore(c) == c = "_" \/ \E k \in 1..Len(UpperLetters) : CharAt(UpperLetters, k) = c

StartsWith(s, prefix) == Len(s) >= Len(prefix) /\ SubSeq(s, 1, Len(prefix)) = prefix

looksLikeTranscriptText(text) ==
    LET url      == StartsWith(text, "http://") \/ StartsWith(text, "https://")
        numbers  == Len(text) > 0 /\ \A i \in 1..Len(text) : IsDigit(CharAt(text, i))
        allCaps  == Len(text) > 0 /\ \A i \in 1..Len(text) : IsUpperOrUnderscore(CharAt(text, i))
        dotted   == \E d \in 2..(Len(text) - 1) :
                        /\ CharAt(text, d) = "."
                        /\ \A i \in 1..Len(text) : i # d => IsWordChar(CharAt(text, i))
    IN  /\ ~(url \/ numbers \/ allCaps \/ dotted)
        /\ Len(Split(text, " ")) > 3

\* segmentData[k] after the loop of lines 331-338 over the paired texts of
\* the keys and the values: the last pair with key k and a non-empty value.
LastPair(set, valueTexts) ==
    IF set = {} THEN Undef ELSE Str(valueTexts[CHOOSE p \in set : \A q \in set : q <= p])

SegmentData(keyTexts, valueTexts, k) ==
    LastPair({p \in 1..Len(keyTexts) :
                 /\ p <= Len(valueTexts)
                 /\ ToLowerCase(keyTexts[p]) = k
                 /\ valueTexts[p] # ""},
             valueTexts)

\* lines 341-348: the segment object of a dict, or Undef without a text.
DictSegment(text, keyTexts, valueTexts, dictIndex) ==
    IF ~Truthy(text) THEN Undef
    ELSE Obj(<<"id", "text", "timestamp", "speaker">>,
             <<Str("segment-" \o ToString(dictIndex)),
               text,
               parseFloat(Or(SegmentData(keyTexts, valueTexts, "timestamp"),
                          Or(SegmentData(keyTexts, valueTexts, "time"), Num(dictIndex * 5)))),
               Or(SegmentData(keyTexts, valueTexts, "speaker"),
                  SegmentData(keyTexts, valueTexts, "name"))>>)

DictPairs(keyTexts, valueTexts, dictIndex) ==
    DictSegment(Or(SegmentData(keyTexts, valueTexts, "text"),
                Or(SegmentData(keyTexts, valueTexts, "content"),
                   SegmentData(keyTexts, valueTexts, "transcript"))),
                keyTexts, valueTexts, dictIndex)

TextContents(nodes) == [k \in 1..Len(nodes) |-> textContent(nodes[k])]

\* lines 326-348, for the dict at JavaScript index dictIndex: the keys and the
\* values are those of all its descendants, each list in document order.
PlistDictSegment(dict, dictIndex) ==
    DictPairs(TextContents(querySelectorAll(Descendants(dict), {"key"})),
              TextContents(querySelectorAll(Descendants(dict), {"string", "real", "integer"})),
              dictIndex)

DefinedOnly(objects) == SelectSeq(objects, LAMBDA o : o.t = "object")

\* The segment objects made of the texts (trimmed) that are longer than 20
\* characters and pass Filter, each at its JavaScript index.
LeafSegments(texts, Filter(_)) ==
    DefinedOnly([k \in 1..Len(texts) |->
        IF Len(texts[k]) > 20 /\ Filter(texts[k])
        THEN Obj(<<"id", "text", "timestamp">>,
                 <<Str("segment-" \o ToString(k - 1)), Str(texts[k]), Num((k - 1) * 5)>>)
        ELSE Undef])

TrimAll(texts) == [k \in 1..Len(texts) |-> Trim(texts[k])]

StringLeafSegments(elements, Filter(_)) ==
    LeafSegments(TrimAll(TextContents(querySelectorAll(elements, {"string"}))), Filter)

\* lines 351-366: the primary segments, or else the filtered string leaves.
PrimaryOrLeaves(primary, elements) ==
    IF Len(primary) > 0 THEN primary
    ELSE StringLeafSegments(elements, looksLikeTranscriptText)

DictSegments(dicts) ==
    DefinedOnly([k \in 1..Len(dicts) |-> PlistDictSegment(dicts[k], k - 1)])

AllElements(doc) == <<doc.root>> \o Descendants(doc.root)

extractTranscriptFromPlist(doc) ==
    PrimaryOrLeaves(DictSegments(querySelectorAll(AllElements(doc), {"dict"})),
                    AllElements(doc))

AnyText(text) == TRUE

\* lines 289-310 of parsePlistContent.
PlistEpisode(transcriptData, textSegments, filename, id) ==
    IF Len(transcriptData) > 0 THEN createEpisodeFromSegments(transcriptData, filename, id)
    ELSE IF Len(textSegments) > 0 THEN createEpisodeFromSegments(textSegments, filename, id)
    ELSE Ret(Null)

parsePlistContent(doc, filename, id) ==
    IF doc.parsererror THEN Null
    ELSE Caught(PlistEpisode(extractTranscriptFromPlist(doc),
                             StringLeafSegments(AllElements(doc), AnyText),
                             filename, id))

(***************************************************************************)
(* Free-text heuristic detector.                                           *)
(***************************************************************************)
transcriptIndicators ==
    <<"transcript", "speaker", "timestamp", "time", "text", "dialogue", "conversation">>

indicatorCount(lowerContent) ==
    Cardinality({k \in 1..Len(transcriptIndicators) :
                    Includes(lowerContent, transcriptIndicators[k])})

looksLikeTranscript(content) == indicatorCount(ToLowerCase(content)) >= 2

\* content.split('\n').filter(line => line.trim().length > 0)
NonBlankLines(content) == SelectSeq(Split(content, "\n"), LAMBDA line : Len(Trim(line)) > 0)

\* lines 119-128: one segment per line of trimmed length above 10, numbered
\* and timed by the line's index among the non-blank lines.
LineSegment(line, index) ==
    [id |-> "segment-" \o ToString(index),
     text |-> line,
     timestamp |-> Num(index * 5),
     speaker |-> Undef,
     confidence |-> Undef]

LineSegments(trimmed) ==
    SelectSeq([k \in 1..Len(trimmed) |-> LineSegment(trimmed[k], k - 1)],
              LAMBDA seg : Len(seg.text) > 10)

TextEpisode(segments, filename, id) ==
    [id |-> EpisodeId(id),
     title |-> Str(StripExtension(filename)),
     podcastTitle |-> Str("Imported Podcast"),
     duration |-> Num(Len(segments) * 5),
     publishDate |-> Now,
     description |-> Undef,
     transcript |-> segments]

createEpisodeFromText(content, filename, id) ==
    TextEpisode(LineSegments(TrimAll(NonBlankLines(content))), filename, id)

(***************************************************************************)
(* The input files.  A content is the text of a file or archive entry      *)
(* together with what the two library parsers make of that text.           *)
(***************************************************************************)
Content(text, parsed, doc) == [text |-> text, parsed |-> parsed, doc |-> doc]

RECURSIVE Filler(_)
Filler(n) ==
    IF n <= 0 THEN ""
    ELSE IF n = 1 THEN "."
    ELSE Filler(n \div 2) \o Filler(n - n \div 2)

\* End-to-end scenario 1 of the specification.
Scenario1 ==
    Content("{\"title\":\"Ep1\",\"transcript\":[{\"text\":\"Hello world\",\"timestamp\":0},{\"text\":\"\",\"timestamp\":5}]}",
            Obj(<<"title", "transcript">>,
                <<Str("Ep1"),
                  Arr(<<Obj(<<"text", "timestamp">>, <<Str("Hello world"), Num(0)>>),
                        Obj(<<"text", "timestamp">>, <<Str(""), Num(5)>>)>>)>>),
            ParserError)

\* Valid JSON without transcript data, longer than 100 characters, two keywords.
JsonNoData ==
    Content("{\"note\":\"this text lists the time zones used by the studio for each one of the weekly recording sessions\"}",
            Obj(<<"note">>,
                <<Str("this text lists the time zones used by the studio for each one of the weekly recording sessions")>>),
            ParserError)

\* A transcript array whose entries all have blank text.
JsonBlank ==
    Content("{\"transcript\":[{\"text\":\"  \"}]}",
            Obj(<<"transcript">>, <<Arr(<<Obj(<<"text">>, <<Str("  ")>>)>>)>>),
            ParserError)

BadJson == Content("{\"title\": oops", SyntaxError, ParserError)

PlistDoc ==
    Content("<plist><dict><key>text</key><string>Welcome to the show</string><key>time</key><integer>12</integer></dict></plist>",
            SyntaxError,
            Document(Elem("plist", <<Elem("dict",
                <<Elem("key", <<Text("text")>>), Elem("string", <<Text("Welcome to the show")>>),
                  Elem("key", <<Text("time")>>), Elem("integer", <<Text("12")>>)>>)>>)))

PlistNoText ==
    Content("<plist><dict><key>version</key><integer>2</integer></dict></plist>",
            SyntaxError,
            Document(Elem("plist", <<Elem("dict",
                <<Elem("key", <<Text("version")>>), Elem("integer", <<Text("2")>>)>>)>>)))

\* A bare array of three nodes, two of which give a segment.
JsonTwo ==
    Content("[{\"text\":\"First words\",\"timestamp\":3},{\"content\":\"Second words\",\"time\":\"0\"},{\"text\":\" \"}]",
            Arr(<<Obj(<<"text", "timestamp">>, <<Str("First words"), Num(3)>>),
                  Obj(<<"content", "time">>, <<Str("Second words"), Str("0")>>),
                  Obj(<<"text">>, <<Str(" ")>>)>>),
            ParserError)

\* A property list of two dicts, each with a text.
PlistTwo ==
    Content("<plist><array><dict><key>text</key><string>First words</string><key>time</key><integer>3</integer></dict><dict><key>text</key><string>Second words</string><key>time</key><integer>0</integer></dict></array></plist>",
            SyntaxError,
            Document(Elem("plist", <<Elem("array",
                <<Elem("dict",
                    <<Elem("key", <<Text("text")>>), Elem("string", <<Text("First words")>>),
                      Elem("key", <<Text("time")>>), Elem("integer", <<Text("3")>>)>>),
                  Elem("dict",
                    <<Elem("key", <<Text("text")>>), Elem("string", <<Text("Second words")>>),
                      Elem("key", <<Text("time")>>), Elem("integer", <<Text("0")>>)>>)>>)>>)))

\* A dict whose first key has a value of a type other than string, real or
\* integer.
PlistTyped ==
    Content("<plist><dict><key>explicit</key><true/><key>text</key><string>Hello there</string><key>speaker</key><string>Ann</string></dict></plist>",
            SyntaxError,
            Document(Elem("plist", <<Elem("dict",
                <<Elem("key", <<Text("explicit")>>), Elem("true", <<>>),
                  Elem("key", <<Text("text")>>), Elem("string", <<Text("Hello there")>>),
                  Elem("key", <<Text("speaker")>>), Elem("string", <<Text("Ann")>>)>>)>>)))

\* A dict that holds an array of two dicts, each with a text.
PlistNested ==
    Content("<plist><dict><key>segments</key><array><dict><key>text</key><string>First words</string></dict><dict><key>text</key><string>Second words</string></dict></array></dict></plist>",
            SyntaxError,
            Document(Elem("plist", <<Elem("dict",
                <<Elem("key", <<Text("segments")>>),
                  Elem("array",
                    <<Elem("dict",
                        <<Elem("key", <<Text("text")>>), Elem("string", <<Text("First words")>>)>>),
                      Elem("dict",
                        <<Elem("key", <<Text("text")>>), Elem("string", <<Text("Second words")>>)>>)>>)>>)>>)))

\* A property list whose only string leaf is a URL of 34 characters.
PlistLinks ==
    Content("<plist><dict><key>feed</key><string>https://example.com/feeds/show.xml</string></dict></plist>",
            SyntaxError,
            Document(Elem("plist", <<Elem("dict",
                <<Elem("key", <<Text("feed")>>),
                  Elem("string", <<Text("https://example.com/feeds/show.xml")>>)>>)>>)))

\* A property list without a text-like key and with one string leaf of
\* spoken text.
PlistSpoken ==
    Content("<plist><dict><key>note</key><string>Welcome back to another episode</string><key>feed</key><string>https://example.com/feeds/show.xml</string></dict></plist>",
            SyntaxError,
            Document(Elem("plist", <<Elem("dict",
                <<Elem("key", <<Text("note")>>),
                  Elem("string", <<Text("Welcome back to another episode")>>),
                  Elem("key", <<Text("feed")>>),
                  Elem("string", <<Text("https://example.com/feeds/show.xml")>>)>>)>>)))

TwoKeywordLines == "Speaker one opens the show\nA long line of dialogue follows here\n"

\* Free text with two keywords, of exactly n characters.
FreeText(n) ==
    Content(TwoKeywordLines \o Filler(n - Len(TwoKeywordLines)), SyntaxError, ParserError)

GappedLines == "Speaker one opens the show\nok\nshort\nA long line of dialogue follows here\n"

\* Free text with two keywords and two short lines between the long ones,
\* of n characters.
GappedText(n) ==
    Content(GappedLines \o Filler(n - Len(GappedLines)), SyntaxError, ParserError)

\* Free text with one keyword only, of n characters.
OneKeyword(n) ==
    LET base == "Only the speaker is named in these notes\n"
    IN  Content(base \o Filler(n - Len(base)), SyntaxError, ParserError)

\* Two keywords, more than 100 characters, and no line longer than 10.
ShortLines ==
    Content("text time\ntext time\ntext time\ntext time\ntext time\ntext time\ntext time\ntext time\ntext time\ntext time\ntext time\n",
            SyntaxError, ParserError)

\* Short prose without any keyword.
Prose == Content("Welcome back to another episode\n", SyntaxError, ParserError)

\* Two keywords in fewer than 100 characters.
ShortKeywords == Content("The speaker reads the dialogue aloud\n", SyntaxError, ParserError)

Binary == Content("PNG", SyntaxError, ParserError)

Empty == Content("", SyntaxError, ParserError)

\* An archive entry; `readable` tells whether zipEntry.async('text') resolves.
Entry(name, dir, readable, content) ==
    [name |-> name, dir |-> dir, readable |-> readable, content |-> content]

\* What JSZip makes of a file: the entries of the archive, in the order of
\* Object.entries(contents.files), or a failure.
Archive(entries) == [valid |-> TRUE, entries |-> entries]

NoArchive == [valid |-> FALSE, entries |-> <<>>]

\* A File; `readable` tells whether file.text() resolves.
File(name, type, size, readable, content, archive) ==
    [name |-> name, type |-> type, size |-> size, readable |-> readable,
     content |-> content, archive |-> archive]

TextFile(name, type, content) == File(name, type, Len(content.text), TRUE, content, NoArchive)

LockedFile(name, type, content) == File(name, type, Len(content.text), FALSE, content, NoArchive)

ZipFile(name, archive) == File(name, "application/zip", 512, TRUE, Binary, archive)

Bundle ==
    Archive(<<Entry("pod/", TRUE, TRUE, Empty),
              Entry("pod/ep1.json", FALSE, TRUE, Scenario1),
              Entry("pod/cover.png", FALSE, TRUE, Binary),
              Entry("pod/transcript.txt", FALSE, TRUE, Prose),
              Entry("pod/show.plist", FALSE, TRUE, PlistDoc)>>)

Notes ==
    Archive(<<Entry("notes/cast.txt", FALSE, TRUE, ShortKeywords),
              Entry("notes/transcript.log", FALSE, TRUE, Empty),
              Entry("notes/readme.md", FALSE, TRUE, Prose),
              Entry("notes/blank.json", FALSE, TRUE, JsonBlank)>>)

Damaged ==
    Archive(<<Entry("old/ep1.json", FALSE, TRUE, Scenario1),
              Entry("old/lost.json", FALSE, FALSE, Scenario1),
              Entry("old/", TRUE, TRUE, Empty),
              Entry("old/show.xml", FALSE, TRUE, PlistDoc)>>)

FilePool ==
    <<TextFile("ep1.json", "application/json", Scenario1),
      TextFile("bad.json", "application/json", BadJson),
      TextFile("transcript.json", "application/json", JsonNoData),
      LockedFile("locked.json", "application/json", Scenario1),
      TextFile("show.plist", "", PlistDoc),
      TextFile("feed.xml", "text/xml", PlistNoText),
      LockedFile("locked.xml", "text/xml", PlistDoc),
      TextFile("typed.plist", "", PlistTyped),
      TextFile("nested.plist", "", PlistNested),
      TextFile("links.plist", "", PlistLinks),
      TextFile("spoken.plist", "", PlistSpoken),
      TextFile("library.sqlite", "application/x-sqlite3", Binary),
      LockedFile("archive.db", "", Binary),
      TextFile("empty.db", "", Empty),
      TextFile("podcasts", "", Empty),
      TextFile("notes.txt", "text/plain", FreeText(101)),
      TextFile("notes100.txt", "text/plain", FreeText(100)),
      TextFile("gaps.txt", "text/plain", GappedText(120)),
      TextFile("short.txt", "text/plain", ShortLines),
      TextFile("Transcript.log", "", JsonTwo),
      TextFile("data.bin", "application/octet-stream", PlistTwo),
      TextFile("onekw.txt", "text/plain", OneKeyword(120)),
      TextFile("zones.txt", "text/plain", JsonNoData),
      LockedFile("locked.txt", "text/plain", FreeText(101)),
      ZipFile("bundle.zip", Bundle),
      ZipFile("notes.zip", Notes),
      ZipFile("damaged.zip", Damaged),
      ZipFile("broken.zip", NoArchive)>>

(***************************************************************************)
(* FileParser.processFiles as a state machine.                             *)
(***************************************************************************)
MaxFiles == 2

VARIABLES
    files,      \* the FileList: indices into FilePool
    pc,         \* where processFiles stands
    i,          \* the file of the for loop, from 1
    j,          \* the entry of the archive loop, from 1
    result,     \* processFiles' result
    zipResult,  \* processZipFile's result
    ticks,      \* Date.now() and Math.random() of generateId: a fresh number per step
    log         \* history: what was done, in order

\* A call of the Segment Normalizer and of the structured-data detector on
\* a list of raw nodes.
VARIABLES
    nodes,      \* the raw nodes: indices into NodePool
    envelope,   \* the shape of the JSON payload that carries the nodes
    npc,        \* what has been called so far
    segments,   \* what extractSegments returned for the nodes
    again,      \* what extractSegments returned for its own segments
    draft       \* what parseJsonContent returned for the payload

normVars == <<nodes, envelope, npc, segments, again, draft>>

\* SearchEngine: its field and the last call of search.
VARIABLES
    episodes,   \* this.episodes
    query,      \* the query of the last call of search
    options,    \* the options of the last call of search
    results,    \* what the last call of search returned
    returned,   \* history: the last call on the engine was search
    lookup      \* history: the last call, when it was a lookup by id

searchVars == <<episodes, query, options, results, returned, lookup>>

\* The App component and the TranscriptViewer it renders.  The App's
\* episodes, searchQuery and searchResults are the variables episodes, query
\* and results above: the engine is rebuilt from the App's episodes whenever
\* they change.
VARIABLES
    selectedEpisode,    \* TranscriptViewer's selectedEpisode
    isProcessing,
    hasProcessedFiles,
    notifications,      \* the list on screen
    timers,             \* the ids whose 5-second timer is pending
    clock               \* Date.now()

appVars == <<selectedEpisode, isProcessing, hasProcessedFiles, notifications, timers, clock>>

parserVars == <<files, pc, i, j, result, zipResult, ticks, log>>

vars == <<parserVars, normVars, searchVars, appVars>>

FileAt(k) == FilePool[files[k]]

EntryAt(k) == FileAt(i).archive.entries[k]

EmptyResult == [episodes |-> <<>>, errors |-> <<>>]

\* An element of episodes or errors with the file and entry it came from
\* (the origin is history, not program state).
From(item, file, entry) == [item |-> item, file |-> file, entry |-> entry]

Event(op, file, entry) ==
    [op |-> op, file |-> file, entry |-> entry, det |-> "", hit |-> FALSE]

\* The detectors tried, in order; the last one is the one that gave val.
Detections(r, file, entry) ==
    [k \in 1..Len(r.tried) |->
        [op |-> "detect", file |-> file, entry |-> entry, det |-> r.tried[k],
         hit |-> k = Len(r.tried) /\ IsEpisode(r.val)]]

\* error instanceof Error ? error.message : 'Unknown error', for a failed read.
ReadErrorMessage == "The requested file could not be read"

DirectoryError(name) ==
    "Cannot process directory \"" \o name \o "\". Please select individual files instead."

SqliteError(name) ==
    "SQLite files (" \o name \o ") cannot be processed in the browser. Please look for JSON or PLIST files in the podcast data folder."

ProcessingError(name, message) == "Error processing " \o name \o ": " \o message

ZipError(message) == "Error reading ZIP file: " \o message

\* A dispatch without the database branch: such a file goes the generic way.
RouteWithoutSqlite(file) ==
    IF file.type = "" /\ file.size = 0 THEN "directory"
    ELSE IF EndsWith(file.name, ".zip") THEN "zip"
    ELSE IF EndsWith(file.name, ".json") THEN "json"
    ELSE IF EndsWith(file.name, ".plist") \/ EndsWith(file.name, ".xml") THEN "plist"
    ELSE "generic"

\* A dispatch that looks for "transcript" in the name before the extensions.
RouteNameFirst(file) ==
    IF file.type = "" /\ file.size = 0 THEN "directory"
    ELSE IF Includes(file.name, "transcript") \/ Includes(file.name, "Transcript") THEN "generic"
    ELSE IF EndsWith(file.name, ".zip") THEN "zip"
    ELSE IF EndsWith(file.name, ".json") THEN "json"
    ELSE IF EndsWith(file.name, ".plist") \/ EndsWith(file.name, ".xml") THEN "plist"
    ELSE IF EndsWith(file.name, ".sqlite") \/ EndsWith(file.name, ".db") THEN "sqlite"
    ELSE "generic"

\* The branch of processFiles' dispatch that a file takes.
Route(file) ==
    IF file.type = "" /\ file.size = 0 THEN "directory"
    ELSE IF EndsWith(file.name, ".zip") THEN "zip"
    ELSE IF EndsWith(file.name, ".json") THEN "json"
    ELSE IF EndsWith(file.name, ".plist") \/ EndsWith(file.name, ".xml") THEN "plist"
    ELSE IF EndsWith(file.name, ".sqlite") \/ EndsWith(file.name, ".db") THEN "sqlite"
    ELSE "generic"

\* unshift in the place of push.
PushFront(seq, items) == items \o seq

\* result.episodes.push(...items) and result.errors.push(...items)
Push(seq, items) == seq \o items

\* if (episode) result.episodes.push(episode)
PushIfEpisode(seq, val, file, entry) ==
    IF IsEpisode(val) THEN Push(seq, <<From(val, file, entry)>>) ELSE seq

\* The free-text heuristic with the threshold content.length >= 100.
TryFreeTextFrom100(content, filename, id) ==
    IF Len(content.text) >= 100 /\ looksLikeTranscript(content.text)
    THEN createEpisodeFromText(content.text, filename, id)
    ELSE Null

\* lines 83-85: the free-text heuristic, when the two parsers gave nothing.
TryFreeText(content, filename, id) ==
    IF Len(content.text) > 100 /\ looksLikeTranscript(content.text)
    THEN createEpisodeFromText(content.text, filename, id)
    ELSE Null

\* The generic path with the markup detector before the structured one.
FirstMatchMarkupFirst(a, b, content, filename, id) ==
    IF IsEpisode(b) THEN [val |-> b, tried |-> <<"plist">>]
    ELSE IF IsEpisode(a) THEN [val |-> a, tried |-> <<"plist", "json">>]
    ELSE [val |-> IF Len(content.text) > 100 /\ looksLikeTranscript(content.text)
                  THEN createEpisodeFromText(content.text, filename, id)
                  ELSE Null,
          tried |-> <<"plist", "json", "text">>]

\* lines 66-91, a and b being what parseJsonContent and parsePlistContent
\* give: the episode or null, and the detectors tried, in order.
FirstMatch(a, b, content, filename, id) ==
    IF IsEpisode(a) THEN [val |-> a, tried |-> <<"json">>]
    ELSE IF IsEpisode(b) THEN [val |-> b, tried |-> <<"json", "plist">>]
    ELSE [val |-> TryFreeText(content, filename, id), tried |-> <<"json", "plist", "text">>]

\* The body of processGenericFile after a successful read.
processGenericFile(content, filename, id) ==
    FirstMatch(parseJsonContent(content.parsed, filename, id),
               parsePlistContent(content.doc, filename, id),
               content, filename, id)

\* processJsonFile after a successful read.
processJsonFile(content, filename, id) ==
    [val |-> parseJsonContent(content.parsed, filename, id), tried |-> <<"json">>]

\* processPlistFile after a successful read.
processPlistFile(content, filename, id) ==
    [val |-> parsePlistContent(content.doc, filename, id), tried |-> <<"plist">>]

\* line 168: if (episode.transcript.length > 0) result.episodes.push(episode)
NonEmptyEpisode(episode) == IF Len(episode.transcript) > 0 THEN episode ELSE Null

\* An archive that sends every entry that is neither JSON nor markup to
\* createEpisodeFromText.
EveryEntryIsText(content, filename) == TRUE

\* line 166: the entry goes to createEpisodeFromText.
EntryIsText(content, filename) ==
    Includes(filename, "transcript") \/ looksLikeTranscript(content.text)

\* lines 160-169: the dispatch of one archive entry after its text was read.
processZipEntry(content, filename, id) ==
    IF EndsWith(filename, ".json")
    THEN [val |-> parseJsonContent(content.parsed, filename, id), tried |-> <<"json">>]
    ELSE IF EndsWith(filename, ".plist") \/ EndsWith(filename, ".xml")
    THEN [val |-> parsePlistContent(content.doc, filename, id), tried |-> <<"plist">>]
    ELSE IF EntryIsText(content, filename)
    THEN [val |-> NonEmptyEpisode(createEpisodeFromText(content.text, filename, id)),
          tried |-> <<"text">>]
    ELSE [val |-> Null, tried |-> <<>>]

\* A catch around the loop in the place of one inside it: processFiles returns.
AfterCatchReturn == "done"

\* Where processFiles goes on when the catch of its loop has run.
AfterCatch == "loop"

\* Where processZipFile goes on when the catch of its entry loop has run.
AfterEntryCatch == "zipLoop"

\* lines 52-55: the catch of processFiles' loop on a failed read.
FileFailure(res, name, file) ==
    [res EXCEPT !.errors = Push(@, <<From(ProcessingError(name, ReadErrorMessage), file, 0)>>)]

\* An entry catch that starts the archive's result anew.
EntryFailureAnew(res, name, file, entry) ==
    [episodes |-> <<>>,
     errors   |-> res.errors \o <<From(ProcessingError(name, ReadErrorMessage), file, entry)>>]

\* lines 170-173: the catch of the entry loop on a failed read.
EntryFailure(res, name, file, entry) ==
    [res EXCEPT !.errors = Push(@, <<From(ProcessingError(name, ReadErrorMessage), file, entry)>>)]

\* lines 175-178: the catch of processZipFile on a failed loadAsync.
ZipFailure(res, file) ==
    [res EXCEPT !.errors = Push(@, <<From(ZipError(ReadErrorMessage), file, 0)>>)]

\* lines 26-27: the archive's result is appended to the batch's.
Merge(res, zipRes) ==
    [episodes |-> Push(res.episodes, zipRes.episodes),
     errors   |-> Push(res.errors, zipRes.errors)]

\* No call of the normalizer has been made.
NormalizerIdle ==
    /\ nodes = <<>>
    /\ envelope = "transcript"
    /\ npc = "input"
    /\ segments = <<>>
    /\ again = <<>>
    /\ draft = Null

\* private episodes: Episode[] = [], and no call of search yet.
\* No lookup by id was the last call.
NoLookup == [op |-> "none", episodeId |-> "", segmentId |-> "", value |-> Undef]

\* The App before any upload, with nothing on screen.
AppIdle ==
    /\ selectedEpisode = Null
    /\ isProcessing = FALSE
    /\ hasProcessedFiles = FALSE
    /\ notifications = <<>>
    /\ timers = <<>>
    /\ clock = 0

SearchIdle ==
    /\ lookup = NoLookup
    /\ episodes = <<>>
    /\ query = ""
    /\ options = [caseSensitive |-> FALSE, wholeWords |-> FALSE]
    /\ results = <<>>
    /\ returned = FALSE

Init ==
    /\ files \in UNION {[1..n -> 1..Len(FilePool)] : n \in 0..MaxFiles}
    /\ pc = "loop"
    /\ i = 1
    /\ j = 1
    /\ result = EmptyResult
    /\ zipResult = EmptyResult
    /\ ticks = 0
    /\ log = <<>>
    /\ NormalizerIdle
    /\ SearchIdle
    /\ AppIdle

AtFile(route) == pc = "loop" /\ i <= Len(files) /\ Route(FileAt(i)) = route

\* processFiles, lines 18-22: the directory placeholder.
SkipDirectory ==
    /\ AtFile("directory")
    /\ result' = [result EXCEPT
                     !.errors = Push(@, <<From(DirectoryError(FileAt(i).name), i, 0)>>)]
    /\ log' = log \o <<Event("start", i, 0), Event("end", i, 0)>>
    /\ i' = i + 1
    /\ UNCHANGED <<normVars, appVars, searchVars, files, pc, j, zipResult, ticks>>

\* processFiles, lines 34-37: the database file.
RejectSqlite ==
    /\ AtFile("sqlite")
    /\ result' = [result EXCEPT
                     !.errors = Push(@, <<From(SqliteError(FileAt(i).name), i, 0)>>)]
    /\ log' = log \o <<Event("start", i, 0), Event("end", i, 0)>>
    /\ i' = i + 1
    /\ UNCHANGED <<normVars, appVars, searchVars, files, pc, j, zipResult, ticks>>

\* processFiles up to the await of the file's text or of the archive.
BeginRead ==
    /\ pc = "loop" /\ i <= Len(files)
    /\ Route(FileAt(i)) \in {"zip", "json", "plist", "generic"}
    /\ pc' = Route(FileAt(i))
    /\ log' = log \o <<Event("start", i, 0), Event("readStart", i, 0)>>
    /\ UNCHANGED <<normVars, appVars, searchVars, files, i, j, result, zipResult, ticks>>

\* The read of a file's text fails and the catch of processFiles runs.
CatchReadError ==
    /\ ~FileAt(i).readable
    /\ result' = FileFailure(result, FileAt(i).name, i)
    /\ log' = log \o <<Event("readFailed", i, 0), Event("end", i, 0)>>
    /\ pc' = AfterCatch
    /\ i' = i + 1
    /\ UNCHANGED <<normVars, appVars, searchVars, files, j, zipResult, ticks>>

\* The text of the file was read, detectors ran and gave r; its episode, if
\* any, is pushed.
Detected(r) ==
    /\ FileAt(i).readable
    /\ result' = [result EXCEPT !.episodes = PushIfEpisode(@, r.val, i, 0)]
    /\ log' = log \o <<Event("readEnd", i, 0)>> \o Detections(r, i, 0) \o <<Event("end", i, 0)>>
    /\ pc' = "loop"
    /\ i' = i + 1
    /\ ticks' = ticks + 1
    /\ UNCHANGED <<normVars, appVars, searchVars, files, j, zipResult>>

\* processJsonFile and lines 29-30 of processFiles.
ProcessJsonFile ==
    /\ pc = "json"
    /\ \/ Detected(processJsonFile(FileAt(i).content, FileAt(i).name, ticks))
       \/ CatchReadError

\* processPlistFile and lines 32-33 of processFiles.
ProcessPlistFile ==
    /\ pc = "plist"
    /\ \/ Detected(processPlistFile(FileAt(i).content, FileAt(i).name, ticks))
       \/ CatchReadError

\* processGenericFile and lines 40-50 of processFiles.  A failed read is
\* caught inside processGenericFile (lines 87-89), which then returns null.
ProcessGenericFile ==
    /\ pc = "generic"
    /\ \/ Detected(processGenericFile(FileAt(i).content, FileAt(i).name, ticks))
       \/ /\ ~FileAt(i).readable
          /\ log' = log \o <<Event("readFailed", i, 0), Event("end", i, 0)>>
          /\ pc' = "loop"
          /\ i' = i + 1
          /\ UNCHANGED <<normVars, appVars, searchVars, files, j, result, zipResult, ticks>>

\* processZipFile up to its loop: zip.loadAsync succeeds or throws.  When it
\* throws, processZipFile returns one error, which processFiles pushes.
LoadZip ==
    /\ pc = "zip"
    /\ \/ /\ FileAt(i).readable /\ FileAt(i).archive.valid
          /\ pc' = "zipLoop"
          /\ j' = 1
          /\ zipResult' = EmptyResult
          /\ log' = log \o <<Event("readEnd", i, 0)>>
          /\ UNCHANGED <<normVars, appVars, searchVars, files, i, result, ticks>>
       \/ /\ ~(FileAt(i).readable /\ FileAt(i).archive.valid)
          /\ result' = Merge(result, ZipFailure(EmptyResult, i))
          /\ log' = log \o <<Event("readFailed", i, 0), Event("end", i, 0)>>
          /\ pc' = "loop"
          /\ i' = i + 1
          /\ UNCHANGED <<normVars, appVars, searchVars, files, j, zipResult, ticks>>

AtEntry == pc = "zipLoop" /\ j <= Len(FileAt(i).archive.entries)

\* processZipFile, line 153.
SkipZipDirectory ==
    /\ AtEntry /\ EntryAt(j).dir
    /\ j' = j + 1
    /\ UNCHANGED <<normVars, appVars, searchVars, files, pc, i, result, zipResult, ticks, log>>

\* processZipFile up to the await of the entry's text.
BeginEntryRead ==
    /\ AtEntry /\ ~EntryAt(j).dir
    /\ pc' = "zipEntry"
    /\ log' = log \o <<Event("start", i, j), Event("readStart", i, j)>>
    /\ UNCHANGED <<normVars, appVars, searchVars, files, i, j, result, zipResult, ticks>>

\* The text of the entry was read and its dispatch gave r.
EntryDetected(r) ==
    /\ EntryAt(j).readable
    /\ zipResult' = [zipResult EXCEPT !.episodes = PushIfEpisode(@, r.val, i, j)]
    /\ log' = log \o <<Event("readEnd", i, j)>> \o Detections(r, i, j) \o <<Event("end", i, j)>>
    /\ pc' = "zipLoop"
    /\ ticks' = ticks + 1

\* The read of an entry's text fails and the catch of the entry loop runs.
CatchEntryError ==
    /\ ~EntryAt(j).readable
    /\ zipResult' = EntryFailure(zipResult, EntryAt(j).name, i, j)
    /\ log' = log \o <<Event("readFailed", i, j), Event("end", i, j)>>
    /\ pc' = AfterEntryCatch
    /\ ticks' = ticks

\* processZipFile, lines 158-173: the entry's dispatch, or the catch.
ProcessZipEntry ==
    /\ pc = "zipEntry"
    /\ \/ EntryDetected(processZipEntry(EntryAt(j).content, EntryAt(j).name, ticks))
       \/ CatchEntryError
    /\ j' = j + 1
    /\ UNCHANGED <<normVars, appVars, searchVars, files, i, result>>

\* processZipFile returns and processFiles, lines 26-27, merges its result.
FinishZip ==
    /\ pc = "zipLoop" /\ j > Len(FileAt(i).archive.entries)
    /\ result' = Merge(result, zipResult)
    /\ log' = log \o <<Event("end", i, 0)>>
    /\ pc' = "loop"
    /\ i' = i + 1
    /\ UNCHANGED <<normVars, appVars, searchVars, files, j, zipResult, ticks>>

\* processFiles, line 59.
Return ==
    /\ pc = "loop" /\ i > Len(files)
    /\ pc' = "done"
    /\ UNCHANGED <<normVars, appVars, searchVars, files, i, j, result, zipResult, ticks, log>>

Next ==
    \/ SkipDirectory
    \/ RejectSqlite
    \/ BeginRead
    \/ ProcessJsonFile
    \/ ProcessPlistFile
    \/ ProcessGenericFile
    \/ LoadZip
    \/ SkipZipDirectory
    \/ BeginEntryRead
    \/ ProcessZipEntry
    \/ FinishZip
    \/ Return

Spec == Init /\ [][Next]_vars

(***************************************************************************)
(* Properties of processFiles, read off result and the history in log.     *)
(***************************************************************************)
Done == pc = "done"

Files == 1..Len(files)

\* The files whose processing is over.
Finished == {k \in Files : k < i}

EpisodesOf(k, e) == SelectSeq(result.episodes, LAMBDA x : x.file = k /\ x.entry = e)

EpisodesFrom(k) == SelectSeq(result.episodes, LAMBDA x : x.file = k)

ErrorsOf(k, e) == SelectSeq(result.errors, LAMBDA x : x.file = k /\ x.entry = e)

ErrorsFrom(k) == SelectSeq(result.errors, LAMBDA x : x.file = k)

Happened(op, k, e) ==
    \E n \in 1..Len(log) : log[n].op = op /\ log[n].file = k /\ log[n].entry = e

Attempts(k, e) ==
    SelectSeq(log, LAMBDA ev : ev.op = "detect" /\ ev.file = k /\ ev.entry = e)

DetectorsOf(attempts) == [n \in 1..Len(attempts) |-> attempts[n].det]

Attempted(k, e) == DetectorsOf(Attempts(k, e))

Matches(k, e) == Len(SelectSeq(Attempts(k, e), LAMBDA ev : ev.hit))

MatchesFrom(k) ==
    Len(SelectSeq(log, LAMBDA ev : ev.op = "detect" /\ ev.file = k /\ ev.hit))

TextMatched(k, e) ==
    \E n \in 1..Len(log) :
        /\ log[n].op = "detect" /\ log[n].det = "text" /\ log[n].hit
        /\ log[n].file = k /\ log[n].entry = e

IsSqliteName(name) == EndsWith(name, ".sqlite") \/ EndsWith(name, ".db")

IsMarkupName(name) == EndsWith(name, ".plist") \/ EndsWith(name, ".xml")

IsDirectoryPlaceholder(file) == file.type = "" /\ file.size = 0

\* The files that processFiles hands to processGenericFile.
OnGenericPath(file) ==
    /\ ~IsDirectoryPlaceholder(file)
    /\ ~EndsWith(file.name, ".zip")
    /\ ~EndsWith(file.name, ".json")
    /\ ~IsMarkupName(file.name)
    /\ ~IsSqliteName(file.name)

\* The keywords of the free-text heuristic, and how many of them a text holds.
Keywords ==
    {"transcript", "speaker", "timestamp", "time", "text", "dialogue", "conversation"}

KeywordsIn(lower) == Cardinality({w \in Keywords : Includes(lower, w)})

KeywordCount(text) == KeywordsIn(ToLowerCase(text))

HasLongLine(lines) == \E n \in 1..Len(lines) : Len(Trim(lines[n])) > 10

\* An episode without the identifier that generateId drew for it.
Anon(episode) == [episode EXCEPT !.id = ""]

AnonItems(seq) == [n \in 1..Len(seq) |-> Anon(seq[n].item)]

\* C1: every episode in the result of processFiles has a non-empty
\* transcript, whatever path it came by.
C1_EveryEpisodeHasTranscript ==
    \A n \in 1..Len(result.episodes) : Len(result.episodes[n].item.transcript) > 0

\* C2: a failure on one file never aborts the batch: every file is visited,
\* what the finished files gave is still in the result, and processFiles
\* returns only after the last file.
C2_BatchNeverAborts ==
    /\ \A k \in Finished :
          /\ Happened("start", k, 0)
          /\ Happened("end", k, 0)
          /\ Len(EpisodesFrom(k)) = MatchesFrom(k)
          /\ (Happened("readFailed", k, 0) /\ ~OnGenericPath(FileAt(k))
                => Len(ErrorsFrom(k)) = 1)
    /\ Done => i = Len(files) + 1

C2_LaterFileAfterFailure ==
    /\ Done
    /\ Len(files) = 2
    /\ Happened("readFailed", 1, 0)
    /\ Len(ErrorsFrom(1)) = 1
    /\ Len(EpisodesFrom(2)) = 1

\* C3: whenever reading a file raised an exception, the errors of the
\* result hold an entry that names this file.
C3_FailedReadIsReported ==
    Done => \A k \in Files :
               Happened("readFailed", k, 0)
                  => \E n \in 1..Len(result.errors) :
                        Includes(result.errors[n].item, FileAt(k).name)

C4_LogInOrder ==
    \A p \in 1..Len(log) : \A q \in p..Len(log) :
        /\ log[p].file <= log[q].file
        /\ (log[p].file = log[q].file /\ log[p].entry > 0 /\ log[q].entry > 0
              => log[p].entry <= log[q].entry)

\* A read that started is the last thing that happened until it ends, and a
\* file or entry starts only when the one before it has ended.
C4_OneAtATime ==
    \A p \in 1..Len(log) :
        /\ (log[p].op = "readStart" /\ p < Len(log)
              => /\ log[p + 1].op \in {"readEnd", "readFailed"}
                 /\ log[p + 1].file = log[p].file
                 /\ log[p + 1].entry = log[p].entry)
        /\ (log[p].op = "start" /\ log[p].entry = 0 /\ p > 1
              => /\ log[p - 1].op = "end"
                 /\ log[p - 1].entry = 0
                 /\ log[p - 1].file = log[p].file - 1)
        /\ (log[p].op = "start" /\ log[p].entry > 0
              => /\ log[p - 1].op \in {"end", "readEnd"}
                 /\ log[p - 1].file = log[p].file
                 /\ log[p - 1].entry < log[p].entry)

C4_InDiscoveryOrder(seq) ==
    \A p \in 1..Len(seq) : \A q \in p..Len(seq) :
        /\ seq[p].file <= seq[q].file
        /\ (seq[p].file = seq[q].file => seq[p].entry <= seq[q].entry)

\* C4: files, and the entries of an archive, are processed one after
\* another, and the episodes and the errors of the result stand in the order
\* of the files, and of the entries, they came from.
C4_SequentialInOrder ==
    /\ C4_LogInOrder
    /\ C4_OneAtATime
    /\ C4_InDiscoveryOrder(result.episodes)
    /\ C4_InDiscoveryOrder(result.errors)
    /\ C4_InDiscoveryOrder(zipResult.episodes)
    /\ C4_InDiscoveryOrder(zipResult.errors)

C4_TwoFilesContribute ==
    /\ Done
    /\ Len(files) = 2
    /\ Len(EpisodesFrom(1)) >= 2 /\ Len(EpisodesFrom(2)) >= 1
    /\ Len(ErrorsFrom(1)) >= 1 /\ Len(ErrorsFrom(2)) >= 1

SqliteOutcome(k) ==
    /\ EpisodesFrom(k) = <<>>
    /\ Len(ErrorsFrom(k)) = 1
    /\ Includes(ErrorsFrom(k)[1].item, FileAt(k).name)
    /\ Includes(ErrorsFrom(k)[1].item, "SQLite files")
    /\ Includes(ErrorsFrom(k)[1].item, "cannot be processed")
    /\ ~Happened("readStart", k, 0)

\* C5, as stated: every file named .sqlite or .db gives no episode and the
\* one SQLite error, and is never read, whatever its size and type.
C5_EverySqliteNameRejected ==
    \A k \in Finished : IsSqliteName(FileAt(k).name) => SqliteOutcome(k)

\* C5, amended: every file named .sqlite or .db that is not a directory
\* placeholder (empty type and size 0) gives no episode and the one SQLite
\* error; no file named .sqlite or .db is ever read.
C5_SqliteRejectedUnlessPlaceholder ==
    \A k \in Finished :
        IsSqliteName(FileAt(k).name)
           => /\ ~Happened("readStart", k, 0)
              /\ EpisodesFrom(k) = <<>>
              /\ (~IsDirectoryPlaceholder(FileAt(k)) => SqliteOutcome(k))

C5_UntypedDatabaseRejected ==
    /\ Done
    /\ \E k \in Files :
          /\ IsSqliteName(FileAt(k).name)
          /\ FileAt(k).type = "" /\ FileAt(k).size > 0
          /\ SqliteOutcome(k)

C6_OnlyDetector(k, det) ==
    /\ Attempted(k, 0) \in {<<>>, <<det>>}
    /\ (Attempted(k, 0) = <<det>> /\ Matches(k, 0) = 0
          => EpisodesFrom(k) = <<>> /\ ErrorsFrom(k) = <<>>)

\* C6: a .json file meets the structured-data detector only and a .plist or
\* .xml file the markup detector only; when that detector finds nothing the
\* file gives no episode and no error.
C6_OneDetectorByExtension ==
    \A k \in Finished :
        /\ (EndsWith(FileAt(k).name, ".json") => C6_OnlyDetector(k, "json"))
        /\ (IsMarkupName(FileAt(k).name) => C6_OnlyDetector(k, "plist"))

C6_TranscriptNamedJson ==
    /\ Done
    /\ \E k \in Files :
          /\ FileAt(k).name = "transcript.json"
          /\ Attempted(k, 0) = <<"json">>
          /\ EpisodesFrom(k) = <<>> /\ ErrorsFrom(k) = <<>>

C7_Order(k, a, b, t) ==
    /\ Attempted(k, 0) = IF IsEpisode(a) THEN <<"json">>
                         ELSE IF IsEpisode(b) THEN <<"json", "plist">>
                         ELSE <<"json", "plist", "text">>
    /\ AnonItems(EpisodesFrom(k)) = IF IsEpisode(a) THEN <<Anon(a)>>
                                    ELSE IF IsEpisode(b) THEN <<Anon(b)>>
                                    ELSE IF IsEpisode(t) THEN <<Anon(t)>>
                                    ELSE <<>>
    /\ ErrorsFrom(k) = <<>>

C7_Detectors(k, content, name) ==
    C7_Order(k, parseJsonContent(content.parsed, name, 0),
                parsePlistContent(content.doc, name, 0),
                IF Len(content.text) > 100 /\ KeywordCount(content.text) >= 2
                THEN createEpisodeFromText(content.text, name, 0) ELSE Null)

\* C7: when processFiles returns, on the generic path the detectors have run
\* in the order structured-data, markup, free text, each only when those
\* before it found nothing; the episode is that of the first one that found
\* something, and when none did the file gives no episode and no error.
C7_FirstMatchInFixedOrder ==
    Done => \A k \in Files :
        OnGenericPath(FileAt(k)) /\ FileAt(k).readable
           => C7_Detectors(k, FileAt(k).content, FileAt(k).name)

C7_MarkupAfterStructured ==
    /\ Done
    /\ Len(files) = 2
    /\ OnGenericPath(FileAt(1)) /\ OnGenericPath(FileAt(2))
    /\ Attempted(1, 0) = <<"json", "plist", "text">> /\ EpisodesFrom(1) = <<>>
    /\ Attempted(2, 0) = <<"json", "plist">> /\ Len(EpisodesFrom(2)) = 1

C8_Boundary(k, length, count) ==
    /\ (count >= 2 /\ length = 100 => EpisodesFrom(k) = <<>>)
    /\ (count >= 2 /\ length = 101 => Len(EpisodesFrom(k)) = 1)
    /\ (count < 2 => EpisodesFrom(k) = <<>>)

\* C8: on the generic path, of the payloads the two parsers reject, one
\* with 2 keywords is rejected at 100 characters and accepted at 101, and
\* one with fewer than 2 keywords is rejected at any length.
C8_StrictLengthThreshold ==
    Done => \A k \in Files :
        OnGenericPath(FileAt(k)) /\ Attempted(k, 0) = <<"json", "plist", "text">>
           => C8_Boundary(k, Len(FileAt(k).content.text),
                          KeywordCount(FileAt(k).content.text))

C8_BothSidesOfThreshold ==
    /\ Done
    /\ Len(files) = 2
    /\ OnGenericPath(FileAt(1)) /\ OnGenericPath(FileAt(2))
    /\ Len(FileAt(1).content.text) = 100 /\ KeywordCount(FileAt(1).content.text) >= 2
    /\ Attempted(1, 0) = <<"json", "plist", "text">> /\ EpisodesFrom(1) = <<>>
    /\ Len(FileAt(2).content.text) = 101 /\ KeywordCount(FileAt(2).content.text) >= 2
    /\ Attempted(2, 0) = <<"json", "plist", "text">> /\ Len(EpisodesFrom(2)) = 1

C9_BothConditions(text) == KeywordCount(text) >= 2 /\ Len(text) > 100

\* C9, as stated: no payload, that of an archive entry included, becomes a
\* free-text episode unless it holds 2 keywords and is longer than 100.
C9_FreeTextNeedsBothEverywhere ==
    Done => \A k \in Files :
        /\ (TextMatched(k, 0) => C9_BothConditions(FileAt(k).content.text))
        /\ \A e \in 1..Len(FileAt(k).archive.entries) :
              TextMatched(k, e)
                 => C9_BothConditions(FileAt(k).archive.entries[e].content.text)

C9_EntryConditions(entry) ==
    /\ Includes(entry.name, "transcript") \/ KeywordCount(entry.content.text) >= 2
    /\ HasLongLine(Split(entry.content.text, "\n"))

\* C9, amended: a top-level payload becomes a free-text episode only with 2
\* keywords and more than 100 characters; an archive entry only when its
\* name contains "transcript" or its content holds 2 keywords, and a line
\* of it is longer than 10 characters once trimmed.
C9_FreeTextConditionsByPath ==
    Done => \A k \in Files :
        /\ (TextMatched(k, 0) => C9_BothConditions(FileAt(k).content.text))
        /\ \A e \in 1..Len(FileAt(k).archive.entries) :
              TextMatched(k, e) => C9_EntryConditions(FileAt(k).archive.entries[e])

C9_ShortEntryBecomesEpisode ==
    /\ Done
    /\ \E k \in Files : \E e \in 1..Len(FileAt(k).archive.entries) :
          /\ TextMatched(k, e)
          /\ Len(EpisodesOf(k, e)) = 1
          /\ ~C9_BothConditions(FileAt(k).archive.entries[e].content.text)

C10_EntryFailure(k, e, entries) ==
    /\ Len(ErrorsOf(k, e)) = 1
    /\ Includes(ErrorsOf(k, e)[1].item, entries[e].name)
    /\ \A l \in (e + 1)..Len(entries) : ~entries[l].dir => Happened("start", k, l)
    /\ \A l \in 1..(e - 1) : Len(EpisodesOf(k, l)) = Matches(k, l)

\* C10: in an archive a failure on one entry gives exactly one error that
\* names the entry; every later entry that is not a directory is still
\* dispatched and the episodes of the earlier entries are kept.
C10_EntryFailureIsContained ==
    \A k \in Finished : \A e \in 1..Len(FileAt(k).archive.entries) :
        Happened("readFailed", k, e) => C10_EntryFailure(k, e, FileAt(k).archive.entries)

C10_FailureBetweenEpisodes ==
    /\ Done
    /\ \E k \in Files : \E e \in 1..Len(FileAt(k).archive.entries) :
          /\ Happened("readFailed", k, e)
          /\ \E l \in 1..(e - 1) : Len(EpisodesOf(k, l)) = 1
          /\ \E l \in (e + 1)..Len(FileAt(k).archive.entries) : Len(EpisodesOf(k, l)) = 1

SegmentIds(episode) == [n \in 1..Len(episode.transcript) |-> episode.transcript[n].id]

C12_Distinct(ids) == \A a \in 1..Len(ids) : \A b \in 1..Len(ids) : a # b => ids[a] # ids[b]

\* Two episodes extracted from the same input: the same file of the pool
\* and the same entry of it.
C12_SameInput(x, y) == files[x.file] = files[y.file] /\ x.entry = y.entry

C12_Stable(seq) ==
    \A m \in 1..Len(seq) : \A n \in 1..Len(seq) :
        C12_SameInput(seq[m], seq[n]) => SegmentIds(seq[m].item) = SegmentIds(seq[n].item)

\* C12: in every episode of the result, whatever detector made it, the
\* segment ids are pairwise distinct, and two extractions of the same input
\* give the same segment ids in the same order.
C12_SegmentIdsDistinctAndStable ==
    /\ \A n \in 1..Len(result.episodes) : C12_Distinct(SegmentIds(result.episodes[n].item))
    /\ \A n \in 1..Len(zipResult.episodes) : C12_Distinct(SegmentIds(zipResult.episodes[n].item))
    /\ C12_Stable(result.episodes)

C12_ExtractedTwice ==
    /\ Done
    /\ Len(files) = 2
    /\ files[1] = files[2]
    /\ Len(EpisodesFrom(1)) = 1 /\ Len(EpisodesFrom(2)) = 1
    /\ Len(EpisodesFrom(1)[1].item.transcript) >= 2
    /\ EpisodesFrom(1)[1].item.id # EpisodesFrom(2)[1].item.id
    /\ Attempted(1, 0) = <<"json">>

MarkupMatched(k, e) ==
    \E n \in 1..Len(log) :
        /\ log[n].op = "detect" /\ log[n].det = "plist" /\ log[n].hit
        /\ log[n].file = k /\ log[n].entry = e

SegmentTexts(episode) == [n \in 1..Len(episode.transcript) |-> episode.transcript[n].text]

C23_ValueTags == {"string", "real", "integer"}

\* The texts of the value elements that immediately follow a key named k
\* among the children of dict.
C23_OwnValues(dict, k) ==
    {textContent(dict.kids[p + 1]) : p \in
        {q \in 1..(Len(dict.kids) - 1) :
            /\ dict.kids[q].tag = "key"
            /\ ToLowerCase(textContent(dict.kids[q])) = k
            /\ dict.kids[q + 1].tag \in C23_ValueTags}}

C23_OwnText(dict) ==
    IF C23_OwnValues(dict, "text") # {} THEN C23_OwnValues(dict, "text")
    ELSE IF C23_OwnValues(dict, "content") # {} THEN C23_OwnValues(dict, "content")
    ELSE C23_OwnValues(dict, "transcript")

C23_Dicts(doc) == querySelectorAll(AllElements(doc), {"dict"})

C23_Carriers(doc) == SelectSeq(C23_Dicts(doc), LAMBDA dict : C23_OwnText(dict) # {})

C23_OneSegmentPerCarrier(texts, carriers) ==
    /\ Len(texts) = Len(carriers)
    /\ \A n \in 1..Len(texts) : texts[n] \in C23_OwnText(carriers[n])

\* C23: when the primary strategy of the markup detector makes the episode
\* of a file, the episode has exactly one segment for each dict that has a
\* text-like key among its own children, in document order, and the text of
\* that segment is the value that immediately follows that key in the dict.
C23_DictPairsOwnChildren ==
    \A n \in 1..Len(result.episodes) :
        /\ result.episodes[n].entry = 0
        /\ MarkupMatched(result.episodes[n].file, 0)
        /\ Len(DictSegments(C23_Dicts(FileAt(result.episodes[n].file).content.doc))) > 0
        => C23_OneSegmentPerCarrier(SegmentTexts(result.episodes[n].item),
                                    C23_Carriers(FileAt(result.episodes[n].file).content.doc))

C24_Spoken(text) == Len(text) > 20 /\ looksLikeTranscriptText(text)

C24_PrimaryEmpty(doc) == Len(DictSegments(C23_Dicts(doc))) = 0

C24_StringLeaves(doc) == TrimAll(TextContents(querySelectorAll(AllElements(doc), {"string"})))

C24_NoSpokenLeaf(doc) ==
    \A n \in 1..Len(C24_StringLeaves(doc)) : ~C24_Spoken(C24_StringLeaves(doc)[n])

\* C24: when the primary strategy of the markup detector finds no segment in
\* a file, every segment of the episode made of its string leaves has a text
\* longer than 20 characters that passes looksLikeTranscriptText, and a file
\* none of whose string leaves passes gives no episode.
C24_LeavesPassSpokenFilter ==
    \A k \in Finished :
        C24_PrimaryEmpty(FileAt(k).content.doc)
        => \A n \in 1..Len(EpisodesFrom(k)) :
              /\ MarkupMatched(k, 0) /\ EpisodesFrom(k)[n].entry = 0
              => /\ ~C24_NoSpokenLeaf(FileAt(k).content.doc)
                 /\ \A m \in 1..Len(EpisodesFrom(k)[n].item.transcript) :
                       C24_Spoken(EpisodesFrom(k)[n].item.transcript[m].text)

C27_Timed(episode) ==
    \A n \in 1..Len(episode.transcript) :
        /\ episode.transcript[n].timestamp = Num((n - 1) * 5)
        /\ episode.duration.n >= episode.transcript[n].timestamp.n

\* C27: in every episode made by the free-text heuristic the timestamp of
\* the n-th segment is 5 * (n - 1) and the duration is at least every
\* timestamp, whether or not short lines were dropped between the kept ones.
C27_FreeTextTimestampsByPosition ==
    \A n \in 1..Len(result.episodes) :
        TextMatched(result.episodes[n].file, result.episodes[n].entry)
            => C27_Timed(result.episodes[n].item)

(***************************************************************************)
(* FileParser.extractSegments and FileParser.parseJsonContent called on a  *)
(* list of raw nodes.                                                      *)
(***************************************************************************)
MaxNodes == 2

\* The raw nodes a transcript array is drawn from.
NodePool ==
    <<Obj(<<"text", "timestamp">>, <<Str("Hello world"), Num(0)>>),
      Obj(<<"text", "timestamp">>, <<Str(""), Num(5)>>),
      Obj(<<"text", "timestamp">>, <<Str("  "), Num(7)>>),
      Obj(<<"text", "timestamp">>, <<Str("Second line"), Num(12)>>),
      Obj(<<"text", "time">>, <<Str("Zero as a string"), Str("0")>>),
      Obj(<<"text", "timestamp">>, <<Str("Bad stamp"), Str("soon")>>),
      Obj(<<"text">>, <<Str("No stamp")>>),
      Obj(<<"text", "timestamp", "start">>, <<Str("Zero then start"), Num(0), Num(9)>>),
      Str("A plain string"),
      Obj(<<"content", "startTime", "speaker">>, <<Str(" From content "), Str("15"), Str("Ann")>>),
      Obj(<<"text", "timestamp">>, <<Num(5), Num(1)>>)>>

NodeAt(k) == NodePool[nodes[k]]

\* The array of the raw nodes.
Nodes == Arr([k \in 1..Len(nodes) |-> NodeAt(k)])

Envelopes == {"transcript", "titled", "apple", "episodes", "wrapped", "described"}

\* An element of an `episodes` array whose transcript is the one node.
Wrapped(node) == Obj(<<"title", "transcript">>, <<Str("Part"), Arr(<<node>>)>>)

\* The same with a description of the episode as its content.
Described(node, k) ==
    Obj(<<"title", "content", "transcript">>,
        <<Str("Part"), Str("About part " \o ToString(k)), Arr(<<node>>)>>)

\* JSON.parse of the payload that carries the array `list` as its transcript.
Payload(shape, list) ==
    CASE shape = "transcript" -> Obj(<<"transcript">>, <<list>>)
      [] shape = "titled"     -> Obj(<<"title", "transcript">>, <<Str("Ep1"), list>>)
      [] shape = "apple"      -> Obj(<<"episode", "transcript">>,
                                     <<Obj(<<"title">>, <<Str("Inner")>>), list>>)
      [] shape = "episodes"   -> Obj(<<"episodes", "transcript">>,
                                     <<Arr(<<Obj(<<"transcript">>, <<Arr(<<Str("Another episode")>>)>>)>>),
                                       list>>)
      [] shape = "wrapped"    ->
            Obj(<<"episodes">>,
                <<Arr([k \in 1..Len(list.items) |-> Wrapped(list.items[k])])>>)
      [] shape = "described"  ->
            Obj(<<"episodes">>,
                <<Arr([k \in 1..Len(list.items) |-> Described(list.items[k], k)])>>)

\* lines 461-467: a pushed segment, as the object that it is.
AsNode(seg) ==
    Obj(<<"id", "text", "timestamp", "speaker", "confidence">>,
        <<Str(seg.id), Str(seg.text), seg.timestamp, seg.speaker, seg.confidence>>)

AsNodes(segs) == Arr([k \in 1..Len(segs) |-> AsNode(segs[k])])

\* processFiles is not running.
ParserIdle ==
    /\ files = <<>>
    /\ pc = "done"
    /\ i = 1
    /\ j = 1
    /\ result = EmptyResult
    /\ zipResult = EmptyResult
    /\ ticks = 0
    /\ log = <<>>

NormalizerInit ==
    /\ nodes \in UNION {[1..n -> 1..Len(NodePool)] : n \in 0..MaxNodes}
    /\ envelope \in Envelopes
    /\ npc = "input"
    /\ segments = <<>>
    /\ again = <<>>
    /\ draft = Null
    /\ ParserIdle
    /\ SearchIdle
    /\ AppIdle

\* extractSegments returned r, or threw.
Normalized(r) ==
    /\ segments' = r.val
    /\ npc' = IF r.threw THEN "threw" ELSE "normalized"

\* this.extractSegments({ segments }) on the raw nodes.
Normalize ==
    /\ npc = "input"
    /\ Normalized(extractSegments(Obj(<<"segments">>, <<Nodes>>)))
    /\ UNCHANGED <<nodes, envelope, again, draft, parserVars, searchVars, appVars>>

\* this.extractSegments({ segments }) on the segments it returned, as
\* createEpisodeFromSegments does with the segments of the markup detector.
Renormalize ==
    /\ npc = "normalized"
    /\ again' = extractSegments(Obj(<<"segments">>, <<AsNodes(segments)>>)).val
    /\ npc' = "renormalized"
    /\ UNCHANGED <<nodes, envelope, segments, draft, parserVars, searchVars, appVars>>

\* parseJsonContent on the payload that carries the raw nodes.
ParseJson ==
    /\ npc = "input"
    /\ draft' = parseJsonContent(Payload(envelope, Nodes), "ep1.json", 1)
    /\ npc' = "parsed"
    /\ UNCHANGED <<nodes, envelope, segments, again, parserVars, searchVars, appVars>>

NormalizerNext ==
    \/ Normalize
    \/ Renormalize
    \/ ParseJson

NormalizerSpec == NormalizerInit /\ [][NormalizerNext]_vars

(***************************************************************************)
(* Properties of the Segment Normalizer and of the structured-data         *)
(* detector.                                                               *)
(***************************************************************************)
\* An object with a text, a string, and a timestamp, and nothing else.
IsTextTimestamp(node) ==
    /\ node.t = "object"
    /\ node.keys = <<"text", "timestamp">>
    /\ node.vals[1].t = "string"

AllTextTimestamp == \A k \in 1..Len(nodes) : IsTextTimestamp(NodeAt(k))

\* The entries whose text is not empty and not white space only.
SpokenEntries == {k \in 1..Len(nodes) : ~IsBlank(NodeAt(k).vals[1].s)}

SegmentCount(episode) == IF IsEpisode(episode) THEN Len(episode.transcript) ELSE 0 - 1

\* C11, as stated: every payload with a transcript array of {text,
\* timestamp} objects gives one episode, whose segments are as many as the
\* entries of the array whose text is not blank.
C11_OneEpisodePerTranscriptArray ==
    npc = "parsed" /\ AllTextTimestamp
       => SegmentCount(draft) = Cardinality(SpokenEntries)

\* The payload names no Apple Podcasts episode and no list of episodes.
C11_PlainEnvelope(payload) ==
    /\ ~Truthy(Get(payload, "MTEpisode"))
    /\ ~Truthy(Get(payload, "episode"))
    /\ ~Truthy(Get(payload, "episodes"))

\* C11, amended: a payload with a transcript array of {text, timestamp}
\* objects, and without an MTEpisode, episode or episodes member, gives one
\* episode whose segments are as many as the entries whose text is not
\* blank when there is such an entry, and no episode when there is none.
C11_OneEpisodeUnlessAllBlank ==
    npc = "parsed" /\ AllTextTimestamp /\ C11_PlainEnvelope(Payload(envelope, Nodes))
       => IF SpokenEntries = {}
          THEN draft = Null
          ELSE SegmentCount(draft) = Cardinality(SpokenEntries)

C11_BlankEntryDropped ==
    /\ npc = "parsed"
    /\ envelope = "titled"
    /\ AllTextTimestamp
    /\ Len(nodes) = 2
    /\ Cardinality(SpokenEntries) = 1
    /\ SegmentCount(draft) = 1
    /\ draft.title = Str("Ep1")

C13_SameFields(a, b) ==
    /\ a.text = b.text
    /\ a.timestamp = b.timestamp
    /\ a.speaker = b.speaker

\* C13: extractSegments on the segments it returned gives as many segments,
\* and each one whose timestamp is a number, 0 included, comes back with the
\* same text, timestamp and speaker, at every position.
C13_NormalizerIsIdempotent ==
    npc = "renormalized"
       => /\ Len(again) = Len(segments)
          /\ \A k \in 1..Len(segments) :
                segments[k].timestamp.t = "number" => C13_SameFields(again[k], segments[k])

\* The text of a raw node: the string itself, or its text or content.
C22_NodeText(node) ==
    IF node.t = "string" THEN node
    ELSE Or(Get(node, "text"), Get(node, "content"))

\* The text is in the first element of the `episodes` array: the text of
\* the entry of its transcript, or its content.
C22_InFirstElement(text) ==
    \/ text = "About part 1"
    \/ C22_NodeText(NodeAt(1)).t = "string" /\ text = Trim(C22_NodeText(NodeAt(1)).s)

\* C22: a payload with an array under `episodes` gives no episode or one
\* episode, and every segment of that episode is taken from the first
\* element of the array, also when the first element has no usable segment.
C22_OnlyFirstOfEpisodes ==
    npc = "parsed" /\ envelope \in {"wrapped", "described"} /\ Len(nodes) > 0
       => \/ draft = Null
          \/ /\ IsEpisode(draft)
             /\ \A n \in 1..Len(draft.transcript) : C22_InFirstElement(draft.transcript[n].text)

TimestampAliases == <<"timestamp", "time", "start", "startTime">>

PresentAliases(node) ==
    {a \in 1..Len(TimestampAliases) : ~Nullish(Get(node, TimestampAliases[a]))}

FirstAliasValue(node) ==
    Get(node, TimestampAliases[CHOOSE a \in PresentAliases(node) :
                                   \A b \in PresentAliases(node) : a <= b])

\* The timestamp of a record node at index idx: the number that the first
\* alias present parses to, or idx * 5 without an alias or without a number.
C14_Timestamp(node, idx) ==
    IF PresentAliases(node) = {} THEN Num(idx * 5)
    ELSE IF parseFloat(FirstAliasValue(node)).t = "number"
    THEN parseFloat(FirstAliasValue(node))
    ELSE Num(idx * 5)

\* C14: the timestamp of the segment of a record node is the number of the
\* first alias present among timestamp, time, start, startTime, and the
\* node's index times 5 when none is present or its value is no number.
C14_FirstAliasOrFallback ==
    npc = "normalized"
       => \A k \in 1..Len(nodes) : \A n \in 1..Len(segments) :
             NodeAt(k).t = "object" /\ segments[n].id = "segment-" \o ToString(k - 1)
                => segments[n].timestamp = C14_Timestamp(NodeAt(k), k - 1)

(***************************************************************************)
(* SearchEngine.  A regular expression built from an escaped query is a    *)
(* literal; it is modelled by the literal it matches, with the flags i     *)
(* (ignoreCase) and the word boundaries \b around it (wholeWords).         *)
(***************************************************************************)
MaxEpisodes == 2

RegexMeta == {".", "*", "+", "?", "^", "$", "{", "}", "(", ")", "|", "[", "]", "\\"}

\* string.replace(/[.*+?^${}()|[\]\\]/g, '\\$&')
RECURSIVE escapeRegex(_)
escapeRegex(string) ==
    IF string = "" THEN ""
    ELSE (IF CharAt(string, 1) \in RegexMeta THEN "\\" ELSE "")
         \o CharAt(string, 1) \o escapeRegex(SubSeq(string, 2, Len(string)))

\* new RegExp(pattern) for a pattern of characters and escaped characters:
\* the literal that it matches.
RECURSIVE Literal(_)
Literal(pattern) ==
    IF pattern = "" THEN ""
    ELSE IF CharAt(pattern, 1) = "\\"
    THEN CharAt(pattern, 2) \o Literal(SubSeq(pattern, 3, Len(pattern)))
    ELSE CharAt(pattern, 1) \o Literal(SubSeq(pattern, 2, Len(pattern)))

\* The flag i of a regular expression: text and literal are compared with
\* their case folded, which moves no position of the text.
Fold(string, ignoreCase) == IF ignoreCase THEN ToLowerCase(string) ELSE string

\* The literal stands at position p of the text.
SameAt(text, lit, p) ==
    /\ p + Len(lit) - 1 <= Len(text)
    /\ SubSeq(text, p, p + Len(lit) - 1) = lit

WordAt(text, p) == p >= 1 /\ p <= Len(text) /\ IsWordChar(CharAt(text, p))

\* \b before position p: a word character on one side only.
Boundary(text, p) == WordAt(text, p - 1) # WordAt(text, p)

MatchAt(text, lit, p, wholeWords) ==
    /\ SameAt(text, lit, p)
    /\ wholeWords => Boundary(text, p) /\ Boundary(text, p + Len(lit))

\* The first position from `from` on where the literal matches, or 0:
\* searchText.indexOf(searchQuery, pos), and the next match of a g regex.
RECURSIVE IndexOf(_, _, _, _)
IndexOf(text, lit, from, wholeWords) ==
    IF from + Len(lit) - 1 > Len(text) THEN 0
    ELSE IF MatchAt(text, lit, from, wholeWords) THEN from
    ELSE IndexOf(text, lit, from + 1, wholeWords)

RECURSIVE CountFrom(_, _, _, _)
CountAfter(text, lit, pos, wholeWords) ==
    IF pos = 0 THEN 0
    ELSE 1 + CountFrom(text, lit, pos + Len(lit), wholeWords)

\* The matches found one after another, each search starting behind the
\* match before.
CountFrom(text, lit, from, wholeWords) ==
    CountAfter(text, lit, IndexOf(text, lit, from, wholeWords), wholeWords)

matchesQuery(text, searchQuery, wholeWords) ==
    IF wholeWords
    THEN IndexOf(Fold(text, TRUE), Fold(Literal(escapeRegex(searchQuery)), TRUE), 1, TRUE) # 0
    ELSE Includes(text, searchQuery)

countMatches(text, searchQuery, wholeWords) ==
    IF wholeWords
    THEN CountFrom(Fold(ToLowerCase(text), TRUE),
                   Fold(Literal(escapeRegex(ToLowerCase(searchQuery))), TRUE), 1, TRUE)
    ELSE CountFrom(ToLowerCase(text), ToLowerCase(searchQuery), 1, FALSE)

MarkOpen == "<mark class=\"bg-yellow-200 dark:bg-yellow-600 px-1 rounded\">"

MarkClose == "</mark>"

RECURSIVE ReplaceFrom(_, _, _, _)
\* The text from `from` on, the match at pos replaced by $1 in its marks.
ReplaceAt(text, folded, lit, from, pos) ==
    IF pos = 0 THEN SubSeq(text, from, Len(text))
    ELSE SubSeq(text, from, pos - 1)
         \o MarkOpen \o SubSeq(text, pos, pos + Len(lit) - 1) \o MarkClose
         \o ReplaceFrom(text, folded, lit, pos + Len(lit))

\* text.replace(regex, '<mark ...>$1</mark>') for a g regex; folded is the
\* text as the regex compares it.
ReplaceFrom(text, folded, lit, from) ==
    ReplaceAt(text, folded, lit, from, IndexOf(folded, lit, from, FALSE))

highlightMatches(text, q, caseSensitive) ==
    IF Trim(q) = "" THEN text
    ELSE ReplaceFrom(text, Fold(text, ~caseSensitive),
                     Fold(Literal(escapeRegex(q)), ~caseSensitive), 1)

\* lines 21-27.
SearchResult(segment, episode, q, opts) ==
    [segmentId |-> segment.id,
     episodeId |-> episode.id,
     text |-> segment.text,
     timestamp |-> segment.timestamp,
     highlightedText |-> highlightMatches(segment.text, q, opts.caseSensitive)]

\* lines 14 and 18.
Cased(string, opts) == IF opts.caseSensitive THEN string ELSE ToLowerCase(string)

\* lines 17-29: the results of one episode, in the order of its segments.
RECURSIVE EpisodeResults(_, _, _, _)
EpisodeResults(episode, k, q, opts) ==
    IF k > Len(episode.transcript) THEN <<>>
    ELSE (IF matchesQuery(Cased(episode.transcript[k].text, opts), Cased(q, opts),
                          opts.wholeWords)
          THEN <<SearchResult(episode.transcript[k], episode, q, opts)>>
          ELSE <<>>)
         \o EpisodeResults(episode, k + 1, q, opts)

\* lines 16-30: the results of the episodes, in the order of the episodes.
RECURSIVE Collect(_, _, _, _)
Collect(corpus, k, q, opts) ==
    IF k > Len(corpus) THEN <<>>
    ELSE EpisodeResults(corpus[k], 1, q, opts) \o Collect(corpus, k + 1, q, opts)

\* lines 34-35: each result with its match count, aMatches or bMatches.
RECURSIVE Counted(_, _, _, _)
Counted(found, n, searchQuery, wholeWords) ==
    IF n = 0 THEN <<>>
    ELSE Append(Counted(found, n - 1, searchQuery, wholeWords),
                [result |-> found[n],
                 matches |-> countMatches(found[n].text, searchQuery, wholeWords)])

\* As lines 37-41, for return b.timestamp - a.timestamp.
CompareLaterFirst(a, b) ==
    IF a.matches # b.matches THEN b.matches - a.matches
    ELSE b.result.timestamp.n - a.result.timestamp.n

\* As lines 37-41, for return aMatches - bMatches.
CompareFewerFirst(a, b) ==
    IF a.matches # b.matches THEN a.matches - b.matches
    ELSE a.result.timestamp.n - b.result.timestamp.n

\* lines 37-41: the comparator of the sort.
Compare(a, b) ==
    IF a.matches # b.matches THEN b.matches - a.matches
    ELSE a.result.timestamp.n - b.result.timestamp.n

\* x put behind the elements of a sorted sequence that do not come after it.
Insert(sorted, x) ==
    SelectSeq(sorted, LAMBDA e : Compare(e, x) <= 0)
    \o <<x>>
    \o SelectSeq(sorted, LAMBDA e : Compare(e, x) > 0)

\* Array.prototype.sort, which is stable, with the comparator of lines 32-42.
RECURSIVE Sort(_, _)
Sort(counted, n) ==
    IF n = 0 THEN <<>>
    ELSE Insert(Sort(counted, n - 1), counted[n])

Uncounted(sorted) == [k \in 1..Len(sorted) |-> sorted[k].result]

\* As line 11, for the test query === ''.
BlankQueryEmptyOnly(q) == q = ""

\* line 11: !query.trim()
BlankQuery(q) == Trim(q) = ""

Sorted(found, q, opts) ==
    Uncounted(Sort(Counted(found, Len(found), Cased(q, opts), opts.wholeWords), Len(found)))

search(corpus, q, opts) ==
    IF BlankQuery(q) THEN <<>>
    ELSE Sorted(Collect(corpus, 1, q, opts), q, opts)

\* A TranscriptSegment and an Episode, with the fields search reads.
Segment(index, text, seconds) ==
    [id |-> "segment-" \o ToString(index), text |-> text, timestamp |-> Num(seconds)]

EpisodePool ==
    << [id |-> "ep-a",
        transcript |-> << Segment(0, "The quick brown fox", 0),
                          Segment(1, "Fox and Fox", 40),
                          Segment(2, "fox, fox: two foxes", 20) >>],
       [id |-> "ep-b",
        transcript |-> << Segment(0, "A quick fox jumps", 5),
                          Segment(1, "Fox fox fox", 10),
                          Segment(2, "Close the tag with </mark> here", 20) >>],
       [id |-> "ep-c",
        transcript |-> << Segment(0, "One fox here", 5),
                          Segment(1, "Version 1.5 not 125", 0),
                          Segment(2, "A banana for the fox", 2) >>] >>

QueryPool == <<"", " ", "quick", "fox", "Fox", "1.5", "tag", "ana">>

Options == [caseSensitive : BOOLEAN, wholeWords : BOOLEAN]

\* An episode's id is generated anew for every episode: no episode twice.
Corpora ==
    {chosen \in UNION {[1..n -> 1..Len(EpisodePool)] : n \in 0..MaxEpisodes} :
        \A a, b \in DOMAIN chosen : chosen[a] = chosen[b] => a = b}

CorpusOf(chosen) == [k \in 1..Len(chosen) |-> EpisodePool[chosen[k]]]

SearchInit ==
    /\ SearchIdle
    /\ AppIdle
    /\ ParserIdle
    /\ NormalizerIdle

\* new SearchEngine() and setEpisodes(episodes), as the application does for
\* every new list of episodes; no search has been made on the new engine.
SetEpisodes ==
    /\ \E chosen \in Corpora : episodes' = CorpusOf(chosen)
    /\ query' = ""
    /\ options' = [caseSensitive |-> FALSE, wholeWords |-> FALSE]
    /\ results' = <<>>
    /\ returned' = FALSE
    /\ lookup' = NoLookup
    /\ UNCHANGED <<parserVars, normVars, appVars>>

\* search(query, options)
Search ==
    /\ \E q \in 1..Len(QueryPool), opts \in Options :
          /\ query' = QueryPool[q]
          /\ options' = opts
          /\ results' = search(episodes, QueryPool[q], opts)
    /\ returned' = TRUE
    /\ lookup' = NoLookup
    /\ UNCHANGED <<episodes, parserVars, normVars, appVars>>

SearchNext == SetEpisodes \/ Search

SearchSpec == SearchInit /\ [][SearchNext]_vars

(***************************************************************************)
(* The lookups by id, between searches on the same engine.                 *)
(***************************************************************************)
\* Array.prototype.find: the first element that satisfies the test, or
\* undefined.
Find(array, Test(_)) ==
    IF \E k \in 1..Len(array) : Test(array[k])
    THEN array[CHOOSE k \in 1..Len(array) :
                  Test(array[k]) /\ \A m \in 1..(k - 1) : ~Test(array[m])]
    ELSE Undef

\* As lines 92-95, for a search of the segment in every episode.
getSegmentByIdAnywhere(corpus, episodeId, segmentId) ==
    IF \E e \in 1..Len(corpus) :
          \E k \in 1..Len(corpus[e].transcript) : corpus[e].transcript[k].id = segmentId
    THEN Find(corpus[CHOOSE e \in 1..Len(corpus) :
                        \E k \in 1..Len(corpus[e].transcript) :
                            corpus[e].transcript[k].id = segmentId].transcript,
              LAMBDA segment : segment.id = segmentId)
    ELSE Undef

getEpisodeById(corpus, episodeId) ==
    Find(corpus, LAMBDA episode : episode.id = episodeId)

\* episode?.transcript.find(...)
FindSegment(episode, segmentId) ==
    IF episode = Undef THEN Undef
    ELSE Find(episode.transcript, LAMBDA segment : segment.id = segmentId)

getSegmentById(corpus, episodeId, segmentId) ==
    FindSegment(getEpisodeById(corpus, episodeId), segmentId)

EpisodeIdPool == <<"ep-a", "ep-b", "ep-c", "ep-x">>

SegmentIdPool == <<"segment-0", "segment-2", "segment-9">>

LookupQueries == <<" ", "fox", "tag">>

\* As search, for a search that puts this.episodes in another order.
SearchReorderingCorpus ==
    /\ \E q \in 1..Len(LookupQueries), opts \in Options :
          /\ query' = LookupQueries[q]
          /\ options' = opts
          /\ results' = search(episodes, LookupQueries[q], opts)
    /\ returned' = TRUE
    /\ lookup' = NoLookup
    /\ episodes' = [k \in 1..Len(episodes) |-> episodes[Len(episodes) + 1 - k]]
    /\ UNCHANGED <<parserVars, normVars, appVars>>

\* search(query, options), for a query of LookupQueries.
SearchBetweenLookups ==
    /\ \E q \in 1..Len(LookupQueries), opts \in Options :
          /\ query' = LookupQueries[q]
          /\ options' = opts
          /\ results' = search(episodes, LookupQueries[q], opts)
    /\ returned' = TRUE
    /\ lookup' = NoLookup
    /\ UNCHANGED <<episodes, parserVars, normVars, appVars>>

\* The record of a search is dropped by a call that is not a search.
NotASearch ==
    /\ query' = ""
    /\ options' = [caseSensitive |-> FALSE, wholeWords |-> FALSE]
    /\ results' = <<>>
    /\ returned' = FALSE

\* getEpisodeById(episodeId)
GetEpisodeById ==
    /\ \E e \in 1..Len(EpisodeIdPool) :
          lookup' = [op |-> "getEpisodeById", episodeId |-> EpisodeIdPool[e], segmentId |-> "",
                     value |-> getEpisodeById(episodes, EpisodeIdPool[e])]
    /\ NotASearch
    /\ UNCHANGED <<episodes, parserVars, normVars, appVars>>

\* getSegmentById(episodeId, segmentId)
GetSegmentById ==
    /\ \E e \in 1..Len(EpisodeIdPool), k \in 1..Len(SegmentIdPool) :
          lookup' = [op |-> "getSegmentById", episodeId |-> EpisodeIdPool[e],
                     segmentId |-> SegmentIdPool[k],
                     value |-> getSegmentById(episodes, EpisodeIdPool[e], SegmentIdPool[k])]
    /\ NotASearch
    /\ UNCHANGED <<episodes, parserVars, normVars, appVars>>

EngineNext == SetEpisodes \/ SearchBetweenLookups \/ GetEpisodeById \/ GetSegmentById

EngineSpec == SearchInit /\ [][EngineNext]_vars

(***************************************************************************)
(* The TranscriptViewer, as the App renders it over its episodes, its      *)
(* search query and its search results.                                    *)
(***************************************************************************)
\* selectedEpisode || episodes[0]
displayEpisode(selected, eps) ==
    IF selected # Null THEN selected
    ELSE IF Len(eps) > 0 THEN eps[1]
    ELSE Undef

HasResultIn(searchResults, episodeId, segmentId) ==
    \E r \in 1..Len(searchResults) :
        searchResults[r].episodeId = episodeId /\ searchResults[r].segmentId = segmentId

filteredSegments(display, searchQuery, searchResults) ==
    IF display = Undef THEN <<>>
    ELSE IF searchQuery # "" /\ Len(searchResults) > 0
    THEN SelectSeq(display.transcript,
                   LAMBDA segment : HasResultIn(searchResults, display.id, segment.id))
    ELSE display.transcript

\* searchResults.find(r => r.segmentId === segment.id)
searchResultOf(segment, searchResults) ==
    Find(searchResults, LAMBDA r : r.segmentId = segment.id)

\* searchResult?.highlightedText || segment.text
displayText(searchResult, segment) ==
    IF searchResult # Undef /\ searchResult.highlightedText # ""
    THEN searchResult.highlightedText
    ELSE segment.text

\* The paragraphs of the transcript panel: each segment shown, with the
\* markup put on screen for it.
Paragraphs(shown, searchResults) ==
    [n \in 1..Len(shown) |->
        [segment |-> shown[n],
         html |-> displayText(searchResultOf(shown[n], searchResults), shown[n])]]

Transcript ==
    Paragraphs(filteredSegments(displayEpisode(selectedEpisode, episodes), query, results),
               results)

\* The App starts with the episodes of the local storage.
ViewerInit ==
    /\ episodes \in {CorpusOf(chosen) : chosen \in Corpora}
    /\ lookup = NoLookup
    /\ query = ""
    /\ options = [caseSensitive |-> FALSE, wholeWords |-> FALSE]
    /\ results = <<>>
    /\ returned = FALSE
    /\ AppIdle
    /\ ParserIdle
    /\ NormalizerIdle

\* handleSearch(query, options), from the search bar shown with the viewer.
HandleSearch ==
    /\ Len(episodes) > 0
    /\ \E q \in 1..Len(LookupQueries), opts \in Options :
          /\ query' = LookupQueries[q]
          /\ options' = opts
          /\ results' = search(episodes, LookupQueries[q], opts)
    /\ returned' = TRUE
    /\ lookup' = NoLookup
    /\ UNCHANGED <<episodes, parserVars, normVars, appVars>>

\* A click on an episode of the list, shown for more than one episode.
SelectEpisode ==
    /\ Len(episodes) > 1
    /\ \E e \in 1..Len(episodes) : selectedEpisode' = episodes[e]
    /\ UNCHANGED <<parserVars, normVars, searchVars, isProcessing, hasProcessedFiles,
                   notifications, timers, clock>>

ViewerNext == HandleSearch \/ SelectEpisode

ViewerSpec == ViewerInit /\ [][ViewerNext]_vars

\* C25: every paragraph of the transcript panel shows the text of its own
\* segment, plain or as highlighted in a search result of that segment of
\* the displayed episode.
C25_OwnTextDisplayed ==
    \A n \in 1..Len(Transcript) :
        \/ Transcript[n].html = Transcript[n].segment.text
        \/ \E r \in 1..Len(results) :
              /\ results[r].episodeId = displayEpisode(selectedEpisode, episodes).id
              /\ results[r].segmentId = Transcript[n].segment.id
              /\ Transcript[n].html = results[r].highlightedText

(***************************************************************************)
(* The App component: uploads, notifications and the clearing of the data. *)
(***************************************************************************)
MaxClock == 3

MaxErrors == 2

Notification(id, type, message) == [id |-> id, type |-> type, message |-> message]

Screen(list, pending, now) == [notifications |-> list, timers |-> pending, clock |-> now]

\* addNotification(type, message) called when Date.now() is `now`: the id is
\* Date.now().toString(), and a timer is set for the id.
addNotification(screen, type, message, now) ==
    Screen(Append(screen.notifications, Notification(ToString(now), type, message)),
           Append(screen.timers, ToString(now)),
           now)

\* prev.filter(n => n.id !== id)
Dismiss(list, id) == SelectSeq(list, LAMBDA n : n.id # id)

\* The calls of addNotification of one pass, the k-th of them steps[k]
\* milliseconds after the one before.
RECURSIVE AddAll(_, _, _, _)
AddAll(screen, notes, steps, k) ==
    IF k > Len(notes) THEN screen
    ELSE AddAll(addNotification(screen, notes[k].type, notes[k].message,
                                screen.clock + steps[k]),
                notes, steps, k + 1)

Note(type, message) == [type |-> type, message |-> message]

ErrorMessages(n) == [k \in 1..n |-> "Failed to process file " \o ToString(k)]

\* What processFiles may give the App: a result, or an exception.
Returned(chosen, n) ==
    [threw |-> FALSE, episodes |-> CorpusOf(chosen), errors |-> ErrorMessages(n)]

Thrown == [threw |-> TRUE, episodes |-> <<>>, errors |-> <<>>]

BatchCorpora == {<<>>, <<1>>, <<1, 2>>}

BatchOutcomes ==
    {Thrown} \cup {Returned(chosen, n) : chosen \in BatchCorpora, n \in 0..MaxErrors}

\* lines 53-68: the notifications of a batch, in the order of the calls.
BatchNotes(outcome) ==
    IF outcome.threw THEN <<Note("error", "Failed to process files: Unknown error")>>
    ELSE (IF Len(outcome.episodes) > 0
          THEN <<Note("success", "Successfully processed "
                                    \o ToString(Len(outcome.episodes)) \o " episode(s)")>>
          ELSE <<>>)
         \o [k \in 1..Len(outcome.errors) |-> Note("error", outcome.errors[k])]
         \o (IF Len(outcome.episodes) = 0 /\ Len(outcome.errors) = 0
             THEN <<Note("info", "No transcript data found in the uploaded files")>>
             ELSE <<>>)

\* The first call of a handler is later than every call before it; two
\* calls of one pass may fall in the same millisecond.
PassSteps(n) == {steps \in [1..n -> {0, 1}] : n > 0 => steps[1] = 1}

\* The welcome page is rendered for an empty list of episodes, and on it
\* the banner "No podcast transcripts found".
WelcomeShown == Len(episodes) = 0

BannerShown == WelcomeShown /\ hasProcessedFiles

Show(screen) ==
    /\ notifications' = screen.notifications
    /\ timers' = screen.timers
    /\ clock' = screen.clock

\* handleFilesProcessed up to its await: the upload control is on the
\* welcome page and is disabled while a batch is processed.
BeginBatch ==
    /\ WelcomeShown
    /\ ~isProcessing
    /\ clock < MaxClock
    /\ isProcessing' = TRUE
    /\ hasProcessedFiles' = TRUE
    /\ UNCHANGED <<parserVars, normVars, searchVars, selectedEpisode,
                   notifications, timers, clock>>

\* handleFilesProcessed from the await on, for what processFiles gave.
EndBatch ==
    /\ isProcessing
    /\ \E outcome \in BatchOutcomes :
          /\ episodes' = episodes \o outcome.episodes
          /\ \E steps \in PassSteps(Len(BatchNotes(outcome))) :
                Show(AddAll(Screen(notifications, timers, clock),
                            BatchNotes(outcome), steps, 1))
    /\ isProcessing' = FALSE
    /\ returned' = FALSE
    /\ lookup' = NoLookup
    /\ UNCHANGED <<parserVars, normVars, query, options, results, selectedEpisode,
                   hasProcessedFiles>>

\* removeNotification(id), by the close button of a notification on screen.
RemoveNotification ==
    /\ \E n \in 1..Len(notifications) :
          notifications' = Dismiss(notifications, notifications[n].id)
    /\ UNCHANGED <<parserVars, normVars, searchVars, selectedEpisode, isProcessing,
                   hasProcessedFiles, timers, clock>>

\* The callback of the oldest pending timer: all timers run for 5 seconds.
TimerFires ==
    /\ Len(timers) > 0
    /\ notifications' = Dismiss(notifications, Head(timers))
    /\ timers' = Tail(timers)
    /\ UNCHANGED <<parserVars, normVars, searchVars, selectedEpisode, isProcessing,
                   hasProcessedFiles, clock>>

\* clearAllData, by the button shown with the viewer.
ClearAllData ==
    /\ ~WelcomeShown
    /\ clock < MaxClock
    /\ episodes' = <<>>
    /\ results' = <<>>
    /\ query' = ""
    /\ hasProcessedFiles' = FALSE
    /\ Show(addNotification(Screen(notifications, timers, clock),
                            "info", "All data cleared", clock + 1))
    /\ returned' = FALSE
    /\ lookup' = NoLookup
    /\ UNCHANGED <<parserVars, normVars, options, selectedEpisode, isProcessing>>

AppNext == BeginBatch \/ EndBatch \/ RemoveNotification \/ TimerFires \/ ClearAllData

AppInit == SearchInit

AppSpec == AppInit /\ [][AppNext]_vars

C29_DistinctIds ==
    \A a \in 1..Len(notifications) : \A b \in 1..Len(notifications) :
        a # b => notifications[a].id # notifications[b].id

C29_AtMostOneLeaves ==
    Len(notifications') < Len(notifications) => Len(notifications') = Len(notifications) - 1

\* C29: the notifications on screen always have pairwise distinct ids, and
\* no step (a close button, a timer) takes more than one notification off
\* the screen.
C29_EachDismissedAlone == []C29_DistinctIds /\ [][C29_AtMostOneLeaves]_vars

\* A batch that was begun ends: processFiles returns or throws.
AppFairSpec == AppSpec /\ WF_vars(EndBatch)

\* The second half of C30: isProcessing returns to false after every batch.
C30_ProcessingEnds == isProcessing ~> ~isProcessing

\* C30: the banner "No podcast transcripts found" is on screen only when no
\* batch is being processed.
C30_NoBannerWhileProcessing == BannerShown => ~isProcessing

(***************************************************************************)
(* Properties of search.                                                   *)
(***************************************************************************)
Found == 1..Len(results)

Flags(caseSensitive, wholeWords) ==
    [caseSensitive |-> caseSensitive, wholeWords |-> wholeWords]

AllSegments ==
    UNION {{episodes[e].transcript[k] : k \in 1..Len(episodes[e].transcript)} :
              e \in 1..Len(episodes)}

C15_WhitespaceOnly(q) == \A k \in 1..Len(q) : CharAt(q, k) \in WhiteSpace

\* C15: a search whose query is empty or made of whitespace only returns,
\* and returns the empty sequence, for every corpus and all options.
C15_BlankQueryGivesNothing ==
    returned /\ C15_WhitespaceOnly(query) => results = <<>>

\* A search for a single space, with both options set, over a corpus in
\* which a segment holds a space.
C15_SearchedForSpace ==
    /\ returned
    /\ query = " "
    /\ options = Flags(TRUE, TRUE)
    /\ \E segment \in AllSegments : Includes(segment.text, " ")
    /\ results = <<>>

\* The positions of the text at which the query stands, compared with the
\* given casing, as a whole word or anywhere.
C16_Positions(text, q, caseSensitive, wholeWords) ==
    {p \in 1..Len(text) :
        /\ p + Len(q) - 1 <= Len(text)
        /\ IF caseSensitive THEN SubSeq(text, p, p + Len(q) - 1) = q
           ELSE ToLowerCase(SubSeq(text, p, p + Len(q) - 1)) = ToLowerCase(q)
        /\ wholeWords =>
              /\ (p = 1 \/ ~IsWordChar(CharAt(text, p - 1))) # ~IsWordChar(CharAt(text, p))
              /\ IsWordChar(CharAt(text, p + Len(q) - 1))
                   # (p + Len(q) - 1 < Len(text) /\ IsWordChar(CharAt(text, p + Len(q))))}

\* The occurrences at these positions, taken from the left, none reaching
\* into the one before.
RECURSIVE C16_Disjoint(_, _, _)
C16_Disjoint(positions, from, width) ==
    IF \A p \in positions : p < from THEN 0
    ELSE 1 + C16_Disjoint(positions,
                          width + CHOOSE p \in positions :
                                     p >= from /\ \A r \in positions : r >= from => p <= r,
                          width)

C16_Occurrences(text, q, caseSensitive, wholeWords) ==
    C16_Disjoint(C16_Positions(text, q, caseSensitive, wholeWords), 1, Len(q))

\* C16 as stated: of two results, the one that holds the query twice comes
\* before the one that holds it once, the occurrences counted with the
\* casing and word rule of the options.
C16_TwiceBeforeOnceBySameRule ==
    returned =>
        \A a \in Found :
            C16_Occurrences(results[a].text, query, options.caseSensitive, options.wholeWords) = 2
            => \A b \in Found :
                  C16_Occurrences(results[b].text, query, options.caseSensitive, options.wholeWords) = 1
                  => a < b

\* C16, amended: of two results, the one that holds the query twice comes
\* before the one that holds it once, whatever their timestamps, when the
\* occurrences are counted without regard to case, one after another, and
\* as whole words when wholeWords is set.
C16_TwiceBeforeOnceIgnoringCase ==
    returned =>
        \A a \in Found :
            C16_Occurrences(results[a].text, query, FALSE, options.wholeWords) = 2
            => \A b \in Found :
                  C16_Occurrences(results[b].text, query, FALSE, options.wholeWords) = 1
                  => a < b

\* A case-sensitive search in which a result with two occurrences and a
\* later timestamp stands before a result with one.
C16_TwiceRankedFirst ==
    /\ returned
    /\ options.caseSensitive
    /\ \E a, b \in Found :
          /\ a < b
          /\ C16_Occurrences(results[a].text, query, FALSE, options.wholeWords) = 2
          /\ C16_Occurrences(results[b].text, query, FALSE, options.wholeWords) = 1
          /\ results[a].timestamp.n > results[b].timestamp.n

\* Where the segment of a result stands in the corpus: episode, segment.
C17_Episode(r) == CHOOSE e \in 1..Len(episodes) : episodes[e].id = r.episodeId

C17_Segment(r) ==
    CHOOSE k \in 1..Len(episodes[C17_Episode(r)].transcript) :
        episodes[C17_Episode(r)].transcript[k].id = r.segmentId

C17_CorpusOrder(a, b) ==
    \/ C17_Episode(a) < C17_Episode(b)
    \/ C17_Episode(a) = C17_Episode(b) /\ C17_Segment(a) < C17_Segment(b)

C17_Count(r) == C16_Occurrences(r.text, query, FALSE, options.wholeWords)

C17_MoreMatches(a, b) == C17_Count(a) > C17_Count(b)

C17_Earlier(a, b) == C17_Count(a) = C17_Count(b) /\ a.timestamp.n < b.timestamp.n

C17_Tied(a, b) == C17_Count(a) = C17_Count(b) /\ a.timestamp.n = b.timestamp.n

\* C17: of two results the first has more matches, or as many and the
\* smaller timestamp, or as many and the same timestamp and the earlier
\* place in the corpus (episode, then segment).
C17_RankedByCountThenTimestamp ==
    returned =>
        \A a, b \in Found :
            a < b => \/ C17_MoreMatches(results[a], results[b])
                     \/ C17_Earlier(results[a], results[b])
                     \/ C17_Tied(results[a], results[b])
                        /\ C17_CorpusOrder(results[a], results[b])

\* A result list where each key decides a pair: the count against the
\* timestamps, the timestamp against the corpus order, and the corpus order
\* for two results of two episodes that are equal on both.
C17_EveryKeyDecides ==
    /\ returned
    /\ \E a, b \in Found :
          /\ a < b
          /\ C17_MoreMatches(results[a], results[b])
          /\ results[a].timestamp.n > results[b].timestamp.n
    /\ \E a, b \in Found :
          /\ a < b
          /\ C17_Earlier(results[a], results[b])
          /\ C17_CorpusOrder(results[b], results[a])
    /\ \E a, b \in Found :
          /\ a < b
          /\ C17_Tied(results[a], results[b])
          /\ results[a].episodeId # results[b].episodeId

C18_Returned(e, k) ==
    \E a \in Found : /\ results[a].episodeId = episodes[e].id
                     /\ results[a].segmentId = episodes[e].transcript[k].id

C18_Holds(text) ==
    C16_Positions(text, query, options.caseSensitive, options.wholeWords) # {}

\* C18: a segment is returned exactly when its text holds the query, with
\* the query's own casing when caseSensitive is true and with any casing
\* when it is false, for both values of wholeWords.
C18_CaseSensitiveDecidesCasing ==
    returned /\ ~C15_WhitespaceOnly(query) =>
        \A e \in 1..Len(episodes) :
            \A k \in 1..Len(episodes[e].transcript) :
                C18_Returned(e, k) <=> C18_Holds(episodes[e].transcript[k].text)

\* The text with every occurrence of the query, in any casing and anywhere
\* in a word, between the opening and the closing mark.
RECURSIVE C19_WrapAll(_, _)
C19_WrapAll(text, q) ==
    IF Len(text) < Len(q) THEN text
    ELSE IF ToLowerCase(SubSeq(text, 1, Len(q))) = ToLowerCase(q)
    THEN MarkOpen \o SubSeq(text, 1, Len(q)) \o MarkClose
         \o C19_WrapAll(SubSeq(text, Len(q) + 1, Len(text)), q)
    ELSE CharAt(text, 1) \o C19_WrapAll(SubSeq(text, 2, Len(text)), q)

\* C19: the highlightedText of every result is its text with every
\* occurrence of the query wrapped in highlight markup, the occurrences
\* found without regard to case and to word boundaries, whatever the options.
C19_HighlightIgnoresCase ==
    returned =>
        \A a \in Found :
            results[a].highlightedText = C19_WrapAll(results[a].text, query)

\* The string without its opening and closing mark tags.
RECURSIVE C20_Strip(_)
C20_Strip(html) ==
    IF html = "" THEN ""
    ELSE IF StartsWith(html, MarkOpen)
    THEN C20_Strip(SubSeq(html, Len(MarkOpen) + 1, Len(html)))
    ELSE IF StartsWith(html, MarkClose)
    THEN C20_Strip(SubSeq(html, Len(MarkClose) + 1, Len(html)))
    ELSE CharAt(html, 1) \o C20_Strip(SubSeq(html, 2, Len(html)))

\* C20: the highlightedText of every result, its mark tags removed, is the
\* text of the result, for every query and all options.
C20_StrippedHighlightIsText ==
    returned =>
        \A a \in Found : C20_Strip(results[a].highlightedText) = results[a].text

(***************************************************************************)
(* Properties of the engine's corpus and lookups.                          *)
(***************************************************************************)
\* The last call returned what it returns on the corpus as it stands.
C21_AsIfAlone ==
    /\ returned => results = search(episodes, query, options)
    /\ lookup.op = "getEpisodeById" =>
          lookup.value = getEpisodeById(episodes, lookup.episodeId)
    /\ lookup.op = "getSegmentById" =>
          lookup.value = getSegmentById(episodes, lookup.episodeId, lookup.segmentId)

\* The step is a call of setEpisodes: the corpus is one given as a whole,
\* and the record of the last query is dropped.
C21_IsSetEpisodes ==
    /\ \E chosen \in Corpora : episodes' = CorpusOf(chosen)
    /\ ~returned'
    /\ lookup' = NoLookup

\* C21: search, getEpisodeById and getSegmentById leave the corpus as it is,
\* so that each query, whatever was called before it, returns what it
\* returns alone on the corpus; the corpus changes by setEpisodes only.
C21_QueriesLeaveCorpus ==
    /\ [][episodes' # episodes => C21_IsSetEpisodes]_vars
    /\ []C21_AsIfAlone

\* A lookup of a segment that was found, in a corpus of two episodes.
C21_LookedUpInTwoEpisodes ==
    /\ lookup.op = "getSegmentById"
    /\ lookup.value # Undef
    /\ Len(episodes) = 2

\* The segment belongs to an episode of the corpus with the given id.
C28_SegmentOf(segment, episodeId) ==
    \E e \in 1..Len(episodes) :
        /\ episodes[e].id = episodeId
        /\ \E k \in 1..Len(episodes[e].transcript) : episodes[e].transcript[k] = segment

C28_Resolves(r, segment) ==
    /\ segment # Undef
    /\ segment.text = r.text
    /\ segment.timestamp = r.timestamp
    /\ C28_SegmentOf(segment, r.episodeId)

\* C28: the ids of every result of a search lead getSegmentById, on the same
\* corpus, to a segment of the episode of that id with the result's text and
\* timestamp; a lookup gives undefined when no episode has the id, and
\* otherwise undefined or a segment of that id in an episode of that id.
C28_ResultIdsLeadToTheirSegment ==
    /\ returned =>
          \A a \in Found :
              C28_Resolves(results[a],
                           getSegmentById(episodes, results[a].episodeId, results[a].segmentId))
    /\ lookup.op = "getSegmentById" =>
          IF \A e \in 1..Len(episodes) : episodes[e].id # lookup.episodeId
          THEN lookup.value = Undef
          ELSE \/ lookup.value = Undef
               \/ /\ lookup.value.id = lookup.segmentId
                  /\ C28_SegmentOf(lookup.value, lookup.episodeId)

\* A search with a result from the second episode of the corpus whose
\* segment id is also that of a segment of the first episode.
C28_SameSegmentIdInEarlierEpisode ==
    /\ returned
    /\ Len(episodes) = 2
    /\ \E a \in Found :
          /\ results[a].episodeId = episodes[2].id
          /\ \E k \in 1..Len(episodes[1].transcript) :
                /\ episodes[1].transcript[k].id = results[a].segmentId
                /\ episodes[1].transcript[k].text # results[a].text

\* C26: the highlightedText of every result of a search holds at least one
\* highlighted span, for all options.
C26_EveryResultShowsAMatch ==
    returned => \A a \in Found : Includes(results[a].highlightedText, MarkOpen)

====
